---- MODULE Spec2Model ----
(***************************************************************************)
(* Sync orchestration of the-source backend: BaseSyncWorker.sync() and the *)
(* HTTP trigger endpoints, over the sync_log table (SyncRepository) and    *)
(* the items table (ItemRepository).                                       *)
(*                                                                         *)
(* Every await in the code is a point where another task of the event loop *)
(* may run, so every action below is one stretch of code between awaits    *)
(* that touch shared state (the two tables).                               *)
(***************************************************************************)
EXTENDS Integers, Sequences, FiniteSets, TLC

\* ---------------------------------------------------------------- bounds
MaxCalls == 2      \* calls (handlers, background tasks) in flight at once
MaxRuns == 2       \* sync_log rows created during one behaviour
MaxFaults == 1     \* database calls that raise during one behaviour
MaxFeed == 3       \* longest upstream feed drawn by InitSerial
MaxQuery == 2      \* largest limit and offset of a history request
MAX_PER_PAGE == 2  \* page size of the Raindrop API (50), scaled down

\* RaindropSyncWorker.MAX_RETRIES
MAX_RETRIES == 3

\* RaindropSyncWorker.RATE_LIMIT_DELAY, in seconds
RATE_LIMIT_DELAY == 1

Calls == 1..MaxCalls

\* ------------------------------------------------------------ vocabulary
Sources == {"youtube", "reddit", "raindrop"}

\* RedditGdprImportWorker.SOURCE_NAME: the name its runs are logged under.
GdprWorker == "reddit_gdpr"

\* The sources whose adapter reads its whole feed in one call.
FeedSources == {"youtube", "reddit"}

\* An optional value (Python None or a value) is the empty or the
\* one-element tuple.
None == <<>>
Some(x) == <<x>>

\* One raw upstream record: "ok" parses and validates, "unparseable" makes
\* the adapter's parser raise, "invalid" parses but fails ItemCreate, "blank"
\* is an empty line of a subprocess's output.
Kinds == {"ok", "unparseable", "invalid", "blank"}
Record(i, k) == [id |-> i, kind |-> k]
Records == {Record("a", "ok"), Record("b", "ok"),
            Record("x", "invalid"), Record("u", "unparseable")}

\* Error messages are tuples; a string is a sequence of such tokens.
NL == <<"\n">>
CreateError(i, e) == <<"Failed to create item", i, e>>
ParseError(i) == <<"Failed to parse", i>>
FetchError == <<"Failed to fetch items">>
YtdlpError == <<"yt-dlp failed">>
GdprError == <<"Failed to import Reddit GDPR data">>
DbError == <<"database error">>

VARIABLES
    sync_log,   \* the sync_log table, in insertion order
    items,      \* the items table, in insertion order
    task,       \* per call in flight: its worker object and where it stands
    upstream,   \* per source: the feed the platform serves
    returncode, \* the exit code yt-dlp ends with
    serial,     \* TRUE when the caller waits for a call to end before the next
    faults,     \* database calls that have raised so far
    clock,      \* datetime.utcnow() of the next read
    gdpr,       \* the Reddit GDPR import in flight: handler and background task
    direct,     \* the POST /items request in flight
    answer      \* what the last status or history request returned

vars == <<sync_log, items, task, upstream, returncode, serial, faults,
          clock, gdpr, direct, answer>>

\* ------------------------------------------------------- pure operators
RECURSIVE ParseAll(_)
RECURSIVE ParseAllUntilBad(_)
RECURSIVE Join(_)
\* "\n".join(errors)
Join(errs) ==
    IF Len(errs) = 0 THEN <<>>
    ELSE IF Len(errs) = 1 THEN <<errs[1]>>
    ELSE <<errs[1], NL>> \o Join(Tail(errs))

\* Mutant of IsSyncRunning: a running row of any source counts.
IsSyncRunningAnySource(log, source) ==
    \E i \in DOMAIN log : log[i].status = "running"

\* Mutant of IsSyncRunning: the query filters on the wrong status.
IsSyncRunningWrongStatus(log, source) ==
    \E i \in DOMAIN log : log[i].source = source /\ log[i].status = "completed"

\* SELECT 1 FROM sync_log WHERE source = ? AND status = 'running' LIMIT 1
IsSyncRunning(log, source) ==
    \E i \in DOMAIN log : log[i].source = source /\ log[i].status = "running"

\* INSERT INTO sync_log (source, started_at, status, items_synced)
\* VALUES (?, ?, 'running', 0); the id is the row's position.
CreateLogEntry(log, source, started_at) ==
    Append(log, [id |-> Len(log) + 1,
                 source |-> source,
                 started_at |-> started_at,
                 status |-> "running",
                 items_synced |-> 0,
                 completed_at |-> None,
                 errors |-> None])

\* Mutant of UpdateLogEntry: completed_at is written for 'completed' only.
UpdateLogEntryStampsCompleted(log, log_id, status, items_synced, errors) ==
    [i \in DOMAIN log |->
        IF log[i].id = log_id
        THEN [log[i] EXCEPT
                !.status = status,
                !.completed_at = IF status = "completed"
                                 THEN Some("now") ELSE @,
                !.items_synced = IF items_synced # None
                                 THEN items_synced[1] ELSE @,
                !.errors = IF errors # None THEN Some(errors[1]) ELSE @]
        ELSE log[i]]

\* UPDATE sync_log SET status = ?, [completed_at = ?,] [items_synced = ?,]
\* [errors = ?] WHERE id = ?
UpdateLogEntry(log, log_id, status, items_synced, errors) ==
    [i \in DOMAIN log |->
        IF log[i].id = log_id
        THEN [log[i] EXCEPT
                !.status = status,
                !.completed_at = IF status \in {"completed", "failed"}
                                 THEN Some("now") ELSE @,
                !.items_synced = IF items_synced # None
                                 THEN items_synced[1] ELSE @,
                !.errors = IF errors # None THEN Some(errors[1]) ELSE @]
        ELSE log[i]]

\* update_log_entry(log_id, status="completed", items_synced=..., errors=...)
CompleteSync(log, log_id, items_synced, errors) ==
    UpdateLogEntry(log, log_id, "completed", Some(items_synced), errors)

\* update_log_entry(log_id, status="failed", errors=error_message)
FailSync(log, log_id, error_message) ==
    UpdateLogEntry(log, log_id, "failed", None, Some(error_message))

\* SELECT source_id FROM items WHERE source = ?
GetExistingSourceIds(its, source) ==
    {its[i].source_id : i \in {j \in DOMAIN its : its[j].source = source}}

\* The items table rejects a second row with the same (source, source_id).
UniqueViolation(its, source, source_id) ==
    \E i \in DOMAIN its :
        its[i].source = source /\ its[i].source_id = source_id

\* INSERT INTO items (...): the row remembers the run (sync_log id) that
\* inserted it, 0 for a row that was there before any run.
ItemRepoCreate(its, source, source_id, log_id) ==
    Append(its, [source |-> source, source_id |-> source_id, by |-> log_id])

\* Mutant of ParseAll: the first record that does not parse ends the parse
\* loop.
ParseAllUntilBad(feed) ==
    IF Len(feed) = 0 THEN <<>>
    ELSE IF Head(feed).kind = "unparseable" THEN <<>>
    ELSE <<Head(feed)>> \o ParseAllUntilBad(Tail(feed))

\* The adapter's parse loop: every record that parses is kept, in order;
\* `if not line.strip(): continue` drops an empty line.
ParseAll(feed) ==
    IF Len(feed) = 0 THEN <<>>
    ELSE IF Head(feed).kind \in {"unparseable", "blank"}
         THEN ParseAll(Tail(feed))
    ELSE <<Head(feed)>> \o ParseAll(Tail(feed))

RECURSIVE ParseErrors(_)
\* The soft errors the parse loop records, in order.
ParseErrors(feed) ==
    IF Len(feed) = 0 THEN <<>>
    ELSE IF Head(feed).kind = "unparseable"
         THEN <<ParseError(Head(feed).id)>> \o ParseErrors(Tail(feed))
    ELSE ParseErrors(Tail(feed))

\* ------------------------------------------------------------ the tasks
\* BaseSyncWorker.__init__
NewWorker ==
    [pc |-> "idle", source |-> "youtube", via |-> "direct",
     answered |-> "none", result |-> "none",
     is_running |-> "unset", is_valid |-> "unset", validations |-> 0,
     log_id |-> 0, items_synced |-> 0, items_skipped |-> 0,
     errors |-> <<>>, existing_ids |-> {}, preloaded |-> {},
     fetched |-> <<>>, did_fetch |-> FALSE, idx |-> 1, error_msg |-> <<>>,
     page |-> 0, attempt |-> 0, outcomes |-> <<>>, waits |-> <<>>,
     since |-> 0, gap |-> None]

FaultOutcomes == IF faults < MaxFaults
                 THEN {"ok", "raise_before", "raise_after"}
                 ELSE {"ok"}

ReadOutcomes == IF faults < MaxFaults THEN {"ok", "raise"} ELSE {"ok"}

CountFault(outcome) ==
    faults' = IF outcome = "ok" THEN faults ELSE faults + 1

\* A call that has not created its sync_log row yet but still may.
MayStart(c) == task[c].pc \in {"check", "creds", "start"}

\* Some row of the source has status 'running'.
HasRunning(s) ==
    \E i \in DOMAIN sync_log :
        sync_log[i].source = s /\ sync_log[i].status = "running"

\* A new call takes a free slot, for a source whose platform the behaviour
\* serves.  The rows a behaviour creates are capped at MaxRuns (a call that
\* meets a running row creates none), and a serial caller waits until no
\* call is in flight.
CanCall(c, s) ==
    /\ task[c].pc = "idle"
    /\ s \in DOMAIN upstream
    /\ \A d \in Calls : d < c => task[d].pc # "idle"
    /\ \/ Len(sync_log) + Cardinality({d \in Calls : MayStart(d)}) < MaxRuns
       \/ HasRunning(s)
    /\ serial => \A d \in Calls : task[d].pc = "idle"

\* sync(): if await self.is_running(): return {"success": False,
\* "error": "Sync already running ..."}
AfterCheck(w, running) ==
    IF running
    THEN [w EXCEPT !.pc = "done", !.is_running = "yes",
                   !.result = "already_running"]
    ELSE [w EXCEPT !.pc = "creds", !.is_running = "no"]

\* Mutant of AfterTrigger: the credentials are validated before the
\* running check.
AfterTriggerCredentialsFirst(w, s, running, ok) ==
    [w EXCEPT !.source = s,
              !.via = "http",
              !.answered = IF ~ok THEN "unauthorized"
                           ELSE IF running THEN "conflict"
                           ELSE "started",
              !.validations = @ + 1,
              !.pc = IF ~running /\ ok THEN "check" ELSE "done"]

\* POST /sync/<source> (trigger_youtube_sync, trigger_reddit_sync,
\* trigger_raindrop_sync), the whole handler: 409 when is_running(), 401
\* when validate_credentials() fails, else add_task(_run_<source>_sync)
\* and the answer sync_started=True.  What the handler answers depends on
\* the table only through its first read.  The background task then runs
\* worker.sync() of a new worker from its first line.
AfterTrigger(w, s, running, ok) ==
    [w EXCEPT !.source = s,
              !.via = "http",
              !.answered = IF running THEN "conflict"
                           ELSE IF ~ok THEN "unauthorized"
                           ELSE "started",
              !.validations = IF running THEN @ ELSE @ + 1,
              !.pc = IF ~running /\ ok THEN "check" ELSE "done"]

Trigger(c, s, ok) ==
    /\ CanCall(c, s)
    /\ task' = [task EXCEPT
            ![c] = AfterTrigger(task[c], s, IsSyncRunning(sync_log, s), ok)]
    /\ UNCHANGED <<sync_log, items, upstream, returncode, serial, faults,
                   clock, gdpr, direct, answer>>

\* sync_youtube / sync_reddit / sync_raindrop: worker.sync() called
\* directly; the call runs up to the answer of its is_running() read.
CallSync(c, s) ==
    /\ CanCall(c, s)
    /\ task' = [task EXCEPT
            ![c] = AfterCheck([task[c] EXCEPT !.source = s, !.via = "direct"],
                              IsSyncRunning(sync_log, s))]
    /\ UNCHANGED <<sync_log, items, upstream, returncode, serial, faults,
                   clock, gdpr, direct, answer>>

\* The background task of an accepted trigger starts worker.sync():
\* if await self.is_running(): return already running
SyncCheckRunning(c) ==
    /\ task[c].pc = "check"
    /\ task' = [task EXCEPT
            ![c] = AfterCheck(task[c],
                              IsSyncRunning(sync_log, task[c].source))]
    /\ UNCHANGED <<sync_log, items, upstream, returncode, serial, faults,
                   clock, gdpr, direct, answer>>

\* Mutant of SyncValidate: the answer of validate_credentials() is not
\* looked at.
SyncValidateIgnored(c, ok) ==
    /\ task[c].pc = "creds"
    /\ task' = [task EXCEPT ![c].pc = "start",
                            ![c].validations = @ + 1,
                            ![c].is_valid = IF ok THEN "yes" ELSE "no"]
    /\ UNCHANGED <<sync_log, items, upstream, returncode, serial, faults,
                   clock, gdpr, direct, answer>>

\* sync(): is_valid, message = await self.validate_credentials()
SyncValidate(c, ok) ==
    /\ task[c].pc = "creds"
    /\ IF ok
       THEN task' = [task EXCEPT ![c].pc = "start",
                                 ![c].validations = @ + 1,
                                 ![c].is_valid = "yes"]
       ELSE task' = [task EXCEPT ![c].pc = "done",
                                 ![c].validations = @ + 1,
                                 ![c].is_valid = "no",
                                 ![c].result = "cred_failed"]
    /\ UNCHANGED <<sync_log, items, upstream, returncode, serial, faults,
                   clock, gdpr, direct, answer>>

\* Mutant of StartSyncLog: the row is finalized as soon as it is created,
\* ahead of the fetch and of the ingest loop.
StartSyncLogFinalizesFirst(c, outcome) ==
    /\ task[c].pc = "start"
    /\ outcome \in FaultOutcomes
    /\ CountFault(outcome)
    /\ clock' = clock + 1
    /\ sync_log' = IF outcome = "raise_before" THEN sync_log
                   ELSE CompleteSync(
                            CreateLogEntry(sync_log, task[c].source, clock),
                            Len(sync_log) + 1, 0, None)
    /\ IF outcome = "ok"
       THEN task' = [task EXCEPT ![c].pc = "preload",
                                 ![c].log_id = Len(sync_log) + 1,
                                 ![c].items_synced = 0,
                                 ![c].items_skipped = 0,
                                 ![c].errors = <<>>]
       ELSE task' = [task EXCEPT ![c].pc = "done", ![c].result = "raised"]
    /\ UNCHANGED <<items, upstream, returncode, serial, gdpr, direct, answer>>

\* sync(): await self._start_sync_log(), first half: create_log_entry
\* (INSERT + commit, then get_by_id) and the reset of the counters.  The
\* call sits outside the try block: an exception leaves sync().
\* started_at = datetime.utcnow(): every read of the clock is later than
\* the one before.
StartSyncLog(c, outcome) ==
    /\ task[c].pc = "start"
    /\ outcome \in FaultOutcomes
    /\ CountFault(outcome)
    /\ clock' = clock + 1
    /\ sync_log' = IF outcome = "raise_before" THEN sync_log
                   ELSE CreateLogEntry(sync_log, task[c].source, clock)
    /\ IF outcome = "ok"
       THEN task' = [task EXCEPT ![c].pc = "preload",
                                 ![c].log_id = Len(sync_log) + 1,
                                 ![c].items_synced = 0,
                                 ![c].items_skipped = 0,
                                 ![c].errors = <<>>]
       ELSE task' = [task EXCEPT ![c].pc = "done", ![c].result = "raised"]
    /\ UNCHANGED <<items, upstream, returncode, serial, gdpr, direct, answer>>

\* _start_sync_log(), second half: the DuplicateIndex preload
\* self._existing_ids = await get_existing_source_ids(SOURCE_NAME)
Preload(c, outcome) ==
    /\ task[c].pc = "preload"
    /\ outcome \in ReadOutcomes
    /\ CountFault(outcome)
    /\ IF outcome = "ok"
       THEN task' = [task EXCEPT
                ![c].pc = IF task[c].source = "raindrop"
                          THEN "collections" ELSE "fetch",
                ![c].existing_ids = GetExistingSourceIds(items, task[c].source),
                ![c].preloaded = GetExistingSourceIds(items, task[c].source)]
       ELSE task' = [task EXCEPT ![c].pc = "done", ![c].result = "raised"]
    /\ UNCHANGED <<sync_log, items, upstream, returncode, serial,
                   clock, gdpr, direct, answer>>

\* Where the ingest loop stands once record number idx - 1 is done.
LoopPc(idx, fetched) == IF idx > Len(fetched) THEN "complete" ELSE "loop"

\* Mutant of YtdlpFails: a non-zero exit code is an error whatever the
\* output.
YtdlpFailsOnExitCode(code, stdout) == code # 0

\* _run_ytdlp: if process.returncode != 0 and not stdout: raise
YtdlpFails(code, stdout) == code # 0 /\ Len(stdout) = 0

\* The exit codes of the extraction tool: success, or an error.
ReturnCodes == {0, 1}

\* _fetch_items returned: the parse errors are soft errors of the run.
AfterFetch(w, feed) ==
    [w EXCEPT !.fetched = ParseAll(feed),
              !.did_fetch = TRUE,
              !.errors = @ \o ParseErrors(feed),
              !.idx = 1,
              !.pc = LoopPc(1, ParseAll(feed))]

\* sync(): items = await self._fetch_items(force) of the YouTube and the
\* Reddit worker, which read their whole feed in one call; a fetch-level
\* fatal error is caught by the except branch of sync().  The Reddit
\* worker raises when PRAW does; the YouTube worker raises when yt-dlp
\* has failed, the output of yt-dlp being the feed.
FetchItems(c, outcome) ==
    LET w == task[c]
    IN  /\ w.pc = "fetch"
        /\ w.source \in FeedSources
        /\ w.source = "youtube" =>
              (outcome = "fatal" <=> YtdlpFails(returncode, upstream[w.source]))
        /\ task' = [task EXCEPT ![c] =
                IF outcome = "ok"
                THEN AfterFetch(w, upstream[w.source])
                ELSE [w EXCEPT !.did_fetch = TRUE,
                               !.error_msg = IF w.source = "youtube"
                                             THEN <<YtdlpError>>
                                             ELSE <<FetchError>>,
                               !.pc = "fail"]]
        /\ UNCHANGED <<sync_log, items, upstream, returncode, serial, faults,
                       clock, gdpr, direct, answer>>

\* --------------------------------------------- the Raindrop page fetch
\* What one GET /raindrops/0 attempt ends with: a status code, or an
\* httpx.TimeoutException.
HttpOutcomes == {"200", "500", "502", "503", "504", "timeout"}

\* Mutant of IsTransientStatus: every 5xx status is retried.
IsAny5xxStatus(o) == o \in {"500", "502", "503", "504"}

\* if response.status_code in (502, 503, 504)
IsTransientStatus(o) == o \in {"502", "503", "504"}

\* wait_time = (attempt + 1) * 5, attempt counted from 0
BackoffDelay(attempt) == (attempt + 1) * 5

\* await asyncio.sleep(5) after a timeout
TimeoutDelay == 5

\* Mutant of IsLastAttempt: the retry loop makes one attempt less.
IsLastButOneAttempt(attempt) == attempt = MAX_RETRIES - 2

\* Mutant of IsLastAttempt: the retry loop makes one attempt more.
IsPastLastAttempt(attempt) == attempt = MAX_RETRIES

\* for attempt in range(self.MAX_RETRIES): the last turn of the loop
IsLastAttempt(attempt) == attempt = MAX_RETRIES - 1

Min(a, b) == IF a < b THEN a ELSE b

\* RaindropSyncWorker._fetch_collections: GET /collections, then GET
\* /collections/childrens, with no sleep before either; a failure of
\* either is logged and the mapping returned as it is.  The call before
\* the first one is GET /user of validate_credentials.  since is the time
\* slept since the worker's last outbound call, gap the shortest sleep
\* that came before an outbound call of the worker's latest step.
FetchCollections(c) ==
    /\ task[c].pc = "collections"
    /\ task' = [task EXCEPT ![c].pc = "fetch",
                            ![c].did_fetch = TRUE,
                            ![c].gap = Some(Min(task[c].since, 0)),
                            ![c].since = 0]
    /\ UNCHANGED <<sync_log, items, upstream, returncode, serial, faults,
                   clock, gdpr, direct, answer>>

\* The records the platform serves for params page, perpage.
PageOf(feed, page) ==
    SubSeq(feed, page * MAX_PER_PAGE + 1,
           IF (page + 1) * MAX_PER_PAGE < Len(feed)
           THEN (page + 1) * MAX_PER_PAGE ELSE Len(feed))

RaindropTimeout == <<"Raindrop API timeout">>
RaindropApiError(status) ==
    <<"Failed to fetch Raindrop items: API error", status>>

\* Mutant of FetchRaises: the page request is started over instead of
\* raising.
FetchStartsOver(w, msg) ==
    [w EXCEPT !.attempt = 0, !.outcomes = <<>>, !.waits = <<>>]

\* _fetch_items raises: sync() goes to its except branch.
FetchRaises(w, msg) == [w EXCEPT !.pc = "fail", !.error_msg = <<msg>>]

\* Mutant of AfterPage: only an empty page ends the fetch.
AfterPageStopsWhenEmpty(w, records) ==
    LET items_ == w.fetched \o ParseAll(records)
        errors_ == w.errors \o ParseErrors(records)
    IN  IF Len(records) = 0
        THEN [w EXCEPT !.fetched = items_, !.errors = errors_,
                       !.idx = 1, !.pc = LoopPc(1, items_)]
        ELSE [w EXCEPT !.fetched = items_, !.errors = errors_,
                       !.page = @ + 1, !.attempt = 0]

\* A page came with status 200: its records are parsed (a record that
\* does not parse is a soft error); an empty or a short page ends the
\* fetch, else the next page is asked for.
AfterPage(w, records) ==
    LET items_ == w.fetched \o ParseAll(records)
        errors_ == w.errors \o ParseErrors(records)
    IN  IF Len(records) < MAX_PER_PAGE
        THEN [w EXCEPT !.fetched = items_, !.errors = errors_,
                       !.idx = 1, !.pc = LoopPc(1, items_)]
        ELSE [w EXCEPT !.fetched = items_, !.errors = errors_,
                       !.page = @ + 1, !.attempt = 0]

\* RaindropSyncWorker._fetch_items, one turn of the retry loop: the
\* request (after _rate_limit() on the first turn), then the sleep before
\* the next turn, the parse of the page, or the exception that ends the
\* fetch.  outcomes and waits are the outcomes and the sleeps of the page
\* request in progress.
AfterAttempt(w, o, records) ==
    LET v == [w EXCEPT
                !.did_fetch = TRUE,
                !.outcomes = IF w.attempt = 0 THEN <<o>> ELSE Append(@, o),
                !.waits = IF w.attempt = 0 THEN <<>> ELSE @,
                !.gap = Some(IF w.attempt = 0
                             THEN w.since + RATE_LIMIT_DELAY ELSE w.since),
                !.since = 0]
    IN  IF IsTransientStatus(o)
        THEN LET u == [v EXCEPT !.waits = Append(@, BackoffDelay(w.attempt)),
                                !.since = BackoffDelay(w.attempt)]
             IN  IF IsLastAttempt(w.attempt)
                 THEN FetchRaises(u, RaindropApiError(o))
                 ELSE [u EXCEPT !.attempt = @ + 1]
        ELSE IF o = "timeout"
        THEN IF IsLastAttempt(w.attempt)
             THEN FetchRaises(v, RaindropTimeout)
             ELSE [v EXCEPT !.waits = Append(@, TimeoutDelay),
                            !.since = TimeoutDelay,
                            !.attempt = @ + 1]
        ELSE IF o = "200" THEN AfterPage(v, records)
        ELSE FetchRaises(v, RaindropApiError(o))

RaindropRequest(c, o) ==
    /\ task[c].pc = "fetch"
    /\ task[c].source = "raindrop"
    /\ task' = [task EXCEPT
            ![c] = AfterAttempt(task[c], o,
                                PageOf(upstream["raindrop"], task[c].page))]
    /\ UNCHANGED <<sync_log, items, upstream, returncode, serial, faults,
                   clock, gdpr, direct, answer>>

\* item_data["source"]: every parser sets SOURCE_NAME, but for the stubs of
\* the GDPR import worker, which are Reddit items.
ItemSource(w) == IF w.source = GdprWorker THEN "reddit" ELSE w.source

\* What ItemCreate(**item_data) + ItemRepository.create do for one record
\* that is not in the DuplicateIndex: "created", "invalid" (ItemCreate
\* raised), "failed" (the INSERT raised, nothing stored) or "stored_failed"
\* (INSERT committed, the re-read get_by_id raised).
CreateResult(its, source, rec, outcome) ==
    IF rec.kind = "invalid" THEN "invalid"
    ELSE IF UniqueViolation(its, source, rec.id) THEN "failed"
    ELSE IF outcome = "raise_before" THEN "failed"
    ELSE IF outcome = "raise_after" THEN "stored_failed"
    ELSE "created"

\* Mutant of AfterRecord: a duplicate is counted as synced, not as skipped.
AfterRecordCountsDuplicate(w, rec, res) ==
    IF rec.id \in w.existing_ids
    THEN [w EXCEPT !.items_synced = @ + 1]
    ELSE IF res = "created"
    THEN [w EXCEPT !.items_synced = @ + 1,
                   !.existing_ids = @ \cup {rec.id}]
    ELSE [w EXCEPT !.errors =
            Append(@, CreateError(rec.id, IF res = "invalid"
                                          THEN "validation" ELSE "store"))]

\* Mutant of AfterRecord: the id of a created item is not added to the
\* DuplicateIndex.
AfterRecordForgetsCreated(w, rec, res) ==
    IF rec.id \in w.existing_ids
    THEN [w EXCEPT !.items_skipped = @ + 1]
    ELSE IF res = "created"
    THEN [w EXCEPT !.items_synced = @ + 1]
    ELSE [w EXCEPT !.errors =
            Append(@, CreateError(rec.id, IF res = "invalid"
                                          THEN "validation" ELSE "store"))]

\* Mutant of AfterRecord: the id of a record whose creation failed is
\* added to the DuplicateIndex all the same.
AfterRecordIndexesFailed(w, rec, res) ==
    IF rec.id \in w.existing_ids
    THEN [w EXCEPT !.items_skipped = @ + 1]
    ELSE IF res = "created"
    THEN [w EXCEPT !.items_synced = @ + 1,
                   !.existing_ids = @ \cup {rec.id}]
    ELSE [w EXCEPT !.existing_ids = @ \cup {rec.id},
                   !.errors =
            Append(@, CreateError(rec.id, IF res = "invalid"
                                          THEN "validation" ELSE "store"))]

\* Mutant of AfterRecord: a duplicate is skipped and also recorded as a
\* soft error.
AfterRecordDuplicateIsError(w, rec, res) ==
    IF rec.id \in w.existing_ids
    THEN [w EXCEPT !.items_skipped = @ + 1,
                   !.errors = Append(@, CreateError(rec.id, "store"))]
    ELSE IF res = "created"
    THEN [w EXCEPT !.items_synced = @ + 1,
                   !.existing_ids = @ \cup {rec.id}]
    ELSE [w EXCEPT !.errors =
            Append(@, CreateError(rec.id, IF res = "invalid"
                                          THEN "validation" ELSE "store"))]

\* _create_or_update_item: the worker's fields after one record.
AfterRecord(w, rec, res) ==
    IF rec.id \in w.existing_ids
    THEN [w EXCEPT !.items_skipped = @ + 1]
    ELSE IF res = "created"
    THEN [w EXCEPT !.items_synced = @ + 1,
                   !.existing_ids = @ \cup {rec.id}]
    ELSE [w EXCEPT !.errors =
            Append(@, CreateError(rec.id, IF res = "invalid"
                                          THEN "validation" ELSE "store"))]

\* Mutant of CreateOrUpdateItem: a creation that fails is not caught and
\* aborts the run.
CreateOrUpdateItemAborts(c, outcome) ==
    LET w == task[c]
        rec == w.fetched[w.idx]
        dup == rec.id \in w.existing_ids
        res == CreateResult(items, ItemSource(w), rec, outcome)
        reaches == ~dup /\ rec.kind # "invalid"
                   /\ ~UniqueViolation(items, ItemSource(w), rec.id)
    IN  /\ w.pc = "loop"
        /\ outcome \in FaultOutcomes
        /\ ~reaches => outcome = "ok"
        /\ CountFault(outcome)
        /\ items' = IF ~dup /\ res \in {"created", "stored_failed"}
                    THEN ItemRepoCreate(items, ItemSource(w), rec.id, w.log_id)
                    ELSE items
        /\ task' = [task EXCEPT
                ![c] = IF ~dup /\ res # "created"
                       THEN [w EXCEPT !.pc = "fail",
                                      !.error_msg = <<CreateError(rec.id, "store")>>]
                       ELSE [AfterRecord(w, rec, res) EXCEPT
                                !.idx = w.idx + 1,
                                !.pc = LoopPc(w.idx + 1, w.fetched)]]
        /\ UNCHANGED <<sync_log, upstream, returncode, serial,
                       clock, gdpr, direct, answer>>

\* sync(): one turn of `for idx, item_data in enumerate(items, 1)`
CreateOrUpdateItem(c, outcome) ==
    LET w == task[c]
        rec == w.fetched[w.idx]
        dup == rec.id \in w.existing_ids
        res == CreateResult(items, ItemSource(w), rec, outcome)
        reaches == ~dup /\ rec.kind # "invalid"
                   /\ ~UniqueViolation(items, ItemSource(w), rec.id)
    IN  /\ w.pc = "loop"
        /\ outcome \in FaultOutcomes
        /\ ~reaches => outcome = "ok"
        /\ CountFault(outcome)
        /\ items' = IF ~dup /\ res \in {"created", "stored_failed"}
                    THEN ItemRepoCreate(items, ItemSource(w), rec.id, w.log_id)
                    ELSE items
        /\ task' = [task EXCEPT
                ![c] = [AfterRecord(w, rec, res) EXCEPT
                            !.idx = w.idx + 1,
                            !.pc = LoopPc(w.idx + 1, w.fetched)]]
        /\ UNCHANGED <<sync_log, upstream, returncode, serial,
                       clock, gdpr, direct, answer>>

\* Mutant of ErrorsStr: only the last soft error is kept.
ErrorsStrLastOnly(errors) ==
    IF Len(errors) = 0 THEN None ELSE Some(<<errors[Len(errors)]>>)

\* errors_str = "\n".join(self._errors) if self._errors else None
ErrorsStr(errors) == IF Len(errors) = 0 THEN None ELSE Some(Join(errors))

\* Mutant of CompleteSyncLog: the row gets the number of records processed
\* instead of the number created.
CompleteSyncLogCountsProcessed(c, outcome) ==
    /\ task[c].pc = "complete"
    /\ outcome \in FaultOutcomes
    /\ CountFault(outcome)
    /\ sync_log' = IF outcome = "raise_before" THEN sync_log
                   ELSE CompleteSync(sync_log, task[c].log_id,
                                     task[c].items_synced + task[c].items_skipped,
                                     ErrorsStr(task[c].errors))
    /\ IF outcome = "ok"
       THEN task' = [task EXCEPT ![c].pc = "done", ![c].result = "success"]
       ELSE task' = [task EXCEPT ![c].pc = "fail", ![c].error_msg = <<DbError>>]
    /\ UNCHANGED <<items, upstream, returncode, serial,
                   clock, gdpr, direct, answer>>

\* sync(): await self._complete_sync_log(); an exception of the store is
\* caught by the except branch of sync().
CompleteSyncLog(c, outcome) ==
    /\ task[c].pc = "complete"
    /\ outcome \in FaultOutcomes
    /\ CountFault(outcome)
    /\ sync_log' = IF outcome = "raise_before" THEN sync_log
                   ELSE CompleteSync(sync_log, task[c].log_id,
                                     task[c].items_synced,
                                     ErrorsStr(task[c].errors))
    /\ IF outcome = "ok"
       THEN task' = [task EXCEPT ![c].pc = "done", ![c].result = "success"]
       ELSE task' = [task EXCEPT ![c].pc = "fail", ![c].error_msg = <<DbError>>]
    /\ UNCHANGED <<items, upstream, returncode, serial,
                   clock, gdpr, direct, answer>>

\* Mutant of FailSyncLog: failing a run deletes the items it created.
FailSyncLogRollsBack(c, outcome) ==
    /\ task[c].pc = "fail"
    /\ outcome \in FaultOutcomes
    /\ CountFault(outcome)
    /\ sync_log' = IF outcome = "raise_before" THEN sync_log
                   ELSE FailSync(sync_log, task[c].log_id, task[c].error_msg)
    /\ items' = SelectSeq(items, LAMBDA it : it.by # task[c].log_id)
    /\ IF outcome = "ok"
       THEN task' = [task EXCEPT ![c].pc = "done", ![c].result = "failed"]
       ELSE task' = [task EXCEPT ![c].pc = "done", ![c].result = "raised"]
    /\ UNCHANGED <<upstream, returncode, serial,
                   clock, gdpr, direct, answer>>

\* sync(): except Exception as e: await self._fail_sync_log(str(e))
FailSyncLog(c, outcome) ==
    /\ task[c].pc = "fail"
    /\ outcome \in FaultOutcomes
    /\ CountFault(outcome)
    /\ sync_log' = IF outcome = "raise_before" THEN sync_log
                   ELSE FailSync(sync_log, task[c].log_id, task[c].error_msg)
    /\ IF outcome = "ok"
       THEN task' = [task EXCEPT ![c].pc = "done", ![c].result = "failed"]
       ELSE task' = [task EXCEPT ![c].pc = "done", ![c].result = "raised"]
    /\ UNCHANGED <<items, upstream, returncode, serial,
                   clock, gdpr, direct, answer>>

\* The handler or the background task returns; its worker object is
\* dropped (worker = YouTubeSyncWorker() is a local of the call).
Return(c) ==
    /\ task[c].pc = "done"
    /\ task' = [task EXCEPT ![c] = NewWorker]
    /\ UNCHANGED <<sync_log, items, upstream, returncode, serial, faults,
                   clock, gdpr, direct, answer>>

\* ------------------------------- the Reddit GDPR import and POST /items
\* f"c_{item_id}": the source_id of a Reddit comment.
CommentId(i) == IF i = "a" THEN "c_a" ELSE IF i = "b" THEN "c_b" ELSE i

\* One kept row of saved_posts.csv: its id and whether its permalink is
\* the permalink of a comment.
CsvRow(i, is_comment) == [id |-> i, is_comment |-> is_comment]

\* _create_minimal_stub: source_id = f"c_{item_id}" if is_comment else item_id
StubSourceId(row) == IF row.is_comment THEN CommentId(row.id) ELSE row.id

RECURSIVE GdprStubsBareId(_, _)
\* Mutant of GdprStubs: only the bare id of a row is looked up, not its
\* form with the comment prefix.
GdprStubsBareId(rows, existing_ids) ==
    IF Len(rows) = 0 THEN <<>>
    ELSE IF Head(rows).id \in existing_ids
         THEN GdprStubsBareId(Tail(rows), existing_ids)
    ELSE <<StubSourceId(Head(rows))>>
         \o GdprStubsBareId(Tail(rows),
                            existing_ids \cup {StubSourceId(Head(rows))})

RECURSIVE GdprStubs(_, _)
\* import_reddit_gdpr_stub_only, `for item in items`: a row one of whose
\* potential ids [item_id, f"c_{item_id}"] is in existing_ids is skipped,
\* else its stub is kept and its source_id added to existing_ids.
GdprStubs(rows, existing_ids) ==
    IF Len(rows) = 0 THEN <<>>
    ELSE IF {Head(rows).id, CommentId(Head(rows).id)} \cap existing_ids # {}
         THEN GdprStubs(Tail(rows), existing_ids)
    ELSE <<StubSourceId(Head(rows))>>
         \o GdprStubs(Tail(rows), existing_ids \cup {StubSourceId(Head(rows))})

\* The files an import is started with.
CsvFiles == {<<CsvRow("a", FALSE), CsvRow("b", TRUE)>>}

\* Who inserted an item: a run (its sync_log id), the import or POST /items.
ByImport == -1
ByRequest == -2

\* Mutant of GdprFetchItems: the fetch stores its stubs itself.
GdprFetchItemsStores(c, outcome) ==
    LET w == task[c]
        stubs == GdprStubs(upstream[GdprWorker],
                           GetExistingSourceIds(items, "reddit"))
    IN  /\ w.pc = "fetch"
        /\ w.source = GdprWorker
        /\ task' = [task EXCEPT ![c] =
                IF outcome = "ok"
                THEN AfterFetch(w, [k \in DOMAIN stubs |->
                                       Record(stubs[k], "ok")])
                ELSE [w EXCEPT !.did_fetch = TRUE,
                               !.error_msg = <<GdprError>>,
                               !.pc = "fail"]]
        /\ items' = IF outcome = "ok" /\ Len(stubs) > 0
                    THEN ItemRepoCreate(items, "reddit", stubs[1], w.log_id)
                    ELSE items
        /\ UNCHANGED <<sync_log, upstream, returncode, serial, faults,
                       clock, gdpr, direct, answer>>

\* RedditGdprImportWorker._fetch_items: the CSV is parsed, the source_ids
\* of the Reddit items in the store are read (list_items), and a stub is
\* made for every row that is not among them; any exception is raised as
\* the fetch-level error.  A row's stub has the same source_id whether
\* its details were found on Reddit or not.
GdprFetchItems(c, outcome) ==
    LET w == task[c]
        stubs == GdprStubs(upstream[GdprWorker],
                           GetExistingSourceIds(items, "reddit"))
    IN  /\ w.pc = "fetch"
        /\ w.source = GdprWorker
        /\ task' = [task EXCEPT ![c] =
                IF outcome = "ok"
                THEN AfterFetch(w, [k \in DOMAIN stubs |->
                                       Record(stubs[k], "ok")])
                ELSE [w EXCEPT !.did_fetch = TRUE,
                               !.error_msg = <<GdprError>>,
                               !.pc = "fail"]]
        /\ UNCHANGED <<sync_log, items, upstream, returncode, serial, faults,
                       clock, gdpr, direct, answer>>

NoImport ==
    [pc |-> "idle", answered |-> "none", csv |-> <<>>, stubs |-> <<>>,
     idx |-> 1, created_count |-> 0, errors |-> <<>>]

\* POST /sync/reddit/gdpr-import, the whole handler: 409 when
\* RedditSyncWorker().is_running(), else add_task(run_import) and the
\* answer import_started=True.
GdprTrigger(csv) ==
    /\ gdpr.pc = "idle"
    /\ gdpr' = IF IsSyncRunning(sync_log, "reddit")
               THEN [NoImport EXCEPT !.pc = "done", !.answered = "conflict"]
               ELSE [NoImport EXCEPT !.pc = "list", !.answered = "started",
                                     !.csv = csv]
    /\ UNCHANGED <<sync_log, items, task, upstream, returncode, serial, faults,
                   clock, direct, answer>>

\* import_reddit_gdpr_stub_only: the read of the existing Reddit items
\* (list_items, one page of the small store) and the choice of the stubs.
GdprListExisting(outcome) ==
    /\ gdpr.pc = "list"
    /\ outcome \in ReadOutcomes
    /\ CountFault(outcome)
    /\ gdpr' = IF outcome = "ok"
               THEN LET stubs == GdprStubs(gdpr.csv,
                                   GetExistingSourceIds(items, "reddit"))
                    IN  [gdpr EXCEPT !.stubs = stubs, !.idx = 1,
                                     !.pc = IF Len(stubs) = 0
                                            THEN "done" ELSE "create"]
               ELSE [gdpr EXCEPT !.pc = "done"]
    /\ UNCHANGED <<sync_log, items, task, upstream, returncode, serial,
                   clock, direct, answer>>

\* Mutant of InsertResult: an INSERT of an existing (source, source_id) is
\* let through.
InsertResultNoConflict(its, source, source_id, outcome) ==
    IF outcome = "raise_before" THEN "failed"
    ELSE IF outcome = "raise_after" THEN "stored_failed"
    ELSE "created"

\* What item_repo.create does with a valid item: "failed" when the INSERT
\* raises (unique constraint or store error), "stored_failed" when the
\* re-read after the commit raises, else "created".
InsertResult(its, source, source_id, outcome) ==
    IF UniqueViolation(its, source, source_id) THEN "failed"
    ELSE IF outcome = "raise_before" THEN "failed"
    ELSE IF outcome = "raise_after" THEN "stored_failed"
    ELSE "created"

\* import_reddit_gdpr_stub_only, one turn of `for stub_data in stubs`:
\* ItemCreate(**stub_data), item_repo.create, created_count += 1; an
\* exception is appended to the errors.
GdprCreate(outcome) ==
    LET sid == gdpr.stubs[gdpr.idx]
        res == InsertResult(items, "reddit", sid, outcome)
    IN  /\ gdpr.pc = "create"
        /\ outcome \in FaultOutcomes
        /\ UniqueViolation(items, "reddit", sid) => outcome = "ok"
        /\ CountFault(outcome)
        /\ items' = IF res \in {"created", "stored_failed"}
                    THEN ItemRepoCreate(items, "reddit", sid, ByImport)
                    ELSE items
        /\ gdpr' = [gdpr EXCEPT
                !.created_count = IF res = "created" THEN @ + 1 ELSE @,
                !.errors = IF res = "created" THEN @
                           ELSE Append(@, <<"Failed to create stub", sid>>),
                !.idx = @ + 1,
                !.pc = IF gdpr.idx = Len(gdpr.stubs) THEN "done" ELSE "create"]
        /\ UNCHANGED <<sync_log, task, upstream, returncode, serial,
                       clock, direct, answer>>

\* run_import returns.
GdprReturn ==
    /\ gdpr.pc = "done"
    /\ gdpr' = NoImport
    /\ UNCHANGED <<sync_log, items, task, upstream, returncode, serial, faults,
                   clock, direct, answer>>

NoRequest == [pc |-> "idle", source |-> "reddit", source_id |-> "a",
              result |-> "none"]

\* POST /items -> ItemService.create_item, up to its duplicate check:
\* existing = await self._repo.get_by_source_id(...); if existing: raise
\* ValueError (answered 409).
DirectCheck(source, source_id) ==
    /\ direct.pc = "idle"
    /\ direct' = IF UniqueViolation(items, source, source_id)
                 THEN [pc |-> "done", source |-> source,
                       source_id |-> source_id, result |-> "conflict"]
                 ELSE [pc |-> "create", source |-> source,
                       source_id |-> source_id, result |-> "none"]
    /\ UNCHANGED <<sync_log, items, task, upstream, returncode, serial, faults,
                   clock, gdpr, answer>>

\* ItemService.create_item: item_data = await self._repo.create(item); an
\* exception of the store leaves the handler (answered 500).
DirectCreate(outcome) ==
    LET res == InsertResult(items, direct.source, direct.source_id, outcome)
    IN  /\ direct.pc = "create"
        /\ outcome \in FaultOutcomes
        /\ UniqueViolation(items, direct.source, direct.source_id)
               => outcome = "ok"
        /\ CountFault(outcome)
        /\ items' = IF res \in {"created", "stored_failed"}
                    THEN ItemRepoCreate(items, direct.source,
                                        direct.source_id, ByRequest)
                    ELSE items
        /\ direct' = [direct EXCEPT
                !.pc = "done",
                !.result = IF res = "created" THEN "created" ELSE "error"]
        /\ UNCHANGED <<sync_log, task, upstream, returncode, serial,
                       clock, gdpr, answer>>

\* The POST /items request has been answered.
DirectReturn ==
    /\ direct.pc = "done"
    /\ direct' = NoRequest
    /\ UNCHANGED <<sync_log, items, task, upstream, returncode, serial, faults,
                   clock, gdpr, answer>>

\* ------------------------------------------------ status and history
RECURSIVE OrderByStartedAtDesc(_)
\* ORDER BY started_at DESC
OrderByStartedAtDesc(rows) ==
    IF Len(rows) = 0 THEN <<>>
    ELSE LET m == CHOOSE i \in DOMAIN rows :
                    \A j \in DOMAIN rows :
                        rows[j].started_at <= rows[i].started_at
         IN  <<rows[m]>>
             \o OrderByStartedAtDesc(
                    SubSeq(rows, 1, m - 1) \o SubSeq(rows, m + 1, Len(rows)))

\* LIMIT ? OFFSET ?
LimitOffset(rows, limit, offset) ==
    SubSeq(rows, offset + 1,
           IF offset + limit < Len(rows) THEN offset + limit ELSE Len(rows))

\* Mutant of GetLatestBySource: the oldest row of the source is taken.
GetOldestBySource(log, source) ==
    LimitOffset(SelectSeq(log, LAMBDA r : r.source = source), 1, 0)

\* SELECT * FROM sync_log WHERE source = ? ORDER BY started_at DESC LIMIT 1
GetLatestBySource(log, source) ==
    LimitOffset(
        OrderByStartedAtDesc(SelectSeq(log, LAMBDA r : r.source = source)),
        1, 0)

\* GET /sync/status/{source} for a valid source: the idle answer when
\* get_latest_by_source returns no row, else the fields of that row.
GetSyncStatus(log, source) ==
    LET entry == GetLatestBySource(log, source)
    IN  IF entry = <<>>
        THEN [kind |-> "status", asked |-> source, source |-> source,
              status |-> "idle", last_sync |-> None, items_synced |-> 0,
              error |-> None]
        ELSE [kind |-> "status", asked |-> source,
              source |-> entry[1].source,
              status |-> entry[1].status,
              last_sync |-> entry[1].completed_at,
              items_synced |-> entry[1].items_synced,
              error |-> entry[1].errors]

\* get_history: `if source:` adds the condition source = ?, so that no
\* source (None) and the empty string both select every row.
HistoryWhere(source, r) ==
    IF source # None /\ source[1] # "" THEN r.source = source[1] ELSE TRUE

\* Mutant of GetHistory: total counts the entries of the page.
GetHistoryTotalOfPage(log, source, limit, offset) ==
    [kind |-> "history", asked |-> source, limit |-> limit,
     offset |-> offset,
     total |-> Len(LimitOffset(
                     OrderByStartedAtDesc(
                         SelectSeq(log, LAMBDA r : HistoryWhere(source, r))),
                     limit, offset)),
     entries |-> LimitOffset(
                     OrderByStartedAtDesc(
                         SelectSeq(log, LAMBDA r : HistoryWhere(source, r))),
                     limit, offset)]

\* SyncRepository.get_history -> (entries, total)
GetHistory(log, source, limit, offset) ==
    [kind |-> "history", asked |-> source, limit |-> limit,
     offset |-> offset,
     total |-> Len(SelectSeq(log, LAMBDA r : HistoryWhere(source, r))),
     entries |-> LimitOffset(
                     OrderByStartedAtDesc(
                         SelectSeq(log, LAMBDA r : HistoryWhere(source, r))),
                     limit, offset)]

NoAnswer == [kind |-> "none"]

\* GET /sync/status/{source}; one status or history request at a time.
StatusRequest(source) ==
    /\ answer = NoAnswer
    /\ answer' = GetSyncStatus(sync_log, source)
    /\ UNCHANGED <<sync_log, items, task, upstream, returncode, serial, faults,
                   clock, gdpr, direct>>

\* The source filters of a history request: none, empty, or a name.
HistorySources == {None, Some("")} \cup {Some(s) : s \in FeedSources}

\* GET /sync/history?source=&limit=&offset= (limit >= 1, offset >= 0)
HistoryRequest(source, limit, offset) ==
    /\ answer = NoAnswer
    /\ answer' = GetHistory(sync_log, source, limit, offset)
    /\ UNCHANGED <<sync_log, items, task, upstream, returncode, serial, faults,
                   clock, gdpr, direct>>

\* The response has been sent.
QueryReturn ==
    /\ answer # NoAnswer
    /\ answer' = NoAnswer
    /\ UNCHANGED <<sync_log, items, task, upstream, returncode, serial, faults,
                   clock, gdpr, direct>>

Outcomes == {"ok", "raise_before", "raise_after"}

\* The feed every source serves in the concurrent specification.
Feed == <<Record("a", "ok"), Record("b", "ok")>>

Init ==
    /\ sync_log = <<>>
    /\ items = <<>>
    /\ task = [c \in Calls |-> NewWorker]
    /\ upstream = [s \in FeedSources |-> Feed]
    /\ returncode = 0
    /\ serial = FALSE
    /\ faults = 0
    /\ clock = 1
    /\ gdpr = NoImport
    /\ direct = NoRequest
    /\ answer = NoAnswer

\* Every step of a call but the fetch of its adapter.
SyncSteps ==
    \/ \E c \in Calls, s \in Sources, ok \in BOOLEAN : Trigger(c, s, ok)
    \/ \E c \in Calls, s \in Sources : CallSync(c, s)
    \/ \E c \in Calls : SyncCheckRunning(c)
    \/ \E c \in Calls, ok \in BOOLEAN : SyncValidate(c, ok)
    \/ \E c \in Calls, o \in Outcomes : StartSyncLog(c, o)
    \/ \E c \in Calls, o \in {"ok", "raise"} : Preload(c, o)
    \/ \E c \in Calls, o \in Outcomes : CreateOrUpdateItem(c, o)
    \/ \E c \in Calls, o \in Outcomes : CompleteSyncLog(c, o)
    \/ \E c \in Calls, o \in Outcomes : FailSyncLog(c, o)
    \/ \E c \in Calls : Return(c)

Next ==
    \/ SyncSteps
    \/ \E c \in Calls, o \in {"ok", "fatal"} : FetchItems(c, o)

Spec == Init /\ [][Next]_vars

\* ------------------------------------------- the serial specification
\* One caller that waits for each call to end, over every feed of at most
\* MaxFeed records and a store that already holds some items.
RECURSIVE SeqsUpTo(_)
SeqsUpTo(n) ==
    IF n = 0 THEN {<<>>}
    ELSE SeqsUpTo(n - 1)
         \cup {Append(f, r) : f \in {g \in SeqsUpTo(n - 1) : Len(g) = n - 1},
                               r \in Records}

Feeds == SeqsUpTo(MaxFeed)

\* The items every source holds before the first run: none, or "b".
StoredBefore == {<<>>,
                 <<[source |-> "reddit", source_id |-> "b", by |-> 0],
                   [source |-> "youtube", source_id |-> "b", by |-> 0]>>}

InitSerial ==
    /\ sync_log = <<>>
    /\ items \in StoredBefore
    /\ task = [c \in Calls |-> NewWorker]
    /\ upstream \in {[s \in FeedSources |-> f] : f \in Feeds}
    /\ returncode = 0
    /\ serial = TRUE
    /\ faults = 0
    /\ clock = 1
    /\ gdpr = NoImport
    /\ direct = NoRequest
    /\ answer = NoAnswer

SpecSerial == InitSerial /\ [][Next]_vars

\* ------------------------------------------- the store specification
\* Reddit sync calls, one at a time, together with one Reddit GDPR import
\* and one POST /items request at a time.
DirectIds == {"a", "c_b"}

\* The feed Reddit serves in the store specification.
StoreFeed == <<Record("a", "ok")>>

InitStore ==
    /\ sync_log = <<>>
    /\ items = <<>>
    /\ task = [c \in Calls |-> NewWorker]
    /\ upstream = [s \in {"reddit"} |-> StoreFeed]
    /\ returncode = 0
    /\ serial = TRUE
    /\ faults = 0
    /\ clock = 1
    /\ gdpr = NoImport
    /\ direct = NoRequest
    /\ answer = NoAnswer

NextStore ==
    \/ Next
    \/ \E csv \in CsvFiles : GdprTrigger(csv)
    \/ \E o \in {"ok", "raise"} : GdprListExisting(o)
    \/ \E o \in Outcomes : GdprCreate(o)
    \/ GdprReturn
    \/ \E i \in DirectIds : DirectCheck("reddit", i)
    \/ \E o \in Outcomes : DirectCreate(o)
    \/ DirectReturn

SpecStore == InitStore /\ [][NextStore]_vars

\* ------------------------------------------- the query specification
\* One sync call at a time, with a status or history request at any point.
QueryFeed == <<Record("a", "ok")>>

InitQuery ==
    /\ sync_log = <<>>
    /\ items = <<>>
    /\ task = [c \in Calls |-> NewWorker]
    /\ upstream = [s \in FeedSources |-> QueryFeed]
    /\ returncode = 0
    /\ serial = TRUE
    /\ faults = 0
    /\ clock = 1
    /\ gdpr = NoImport
    /\ direct = NoRequest
    /\ answer = NoAnswer

NextQuery ==
    \/ Next
    \/ \E s \in Sources : StatusRequest(s)
    \/ \E s \in HistorySources, limit \in 1..MaxQuery, offset \in 0..MaxQuery :
          HistoryRequest(s, limit, offset)
    \/ QueryReturn

SpecQuery == InitQuery /\ [][NextQuery]_vars

\* ---------------------------------------- the Raindrop specification
\* Raindrop sync calls, one at a time, over feeds of zero to two pages.
RaindropFeeds ==
    {<<>>,
     <<Record("a", "ok")>>,
     <<Record("a", "ok"), Record("b", "ok")>>,
     <<Record("a", "ok"), Record("u", "unparseable"), Record("b", "ok")>>}

InitRaindrop ==
    /\ sync_log = <<>>
    /\ items = <<>>
    /\ task = [c \in Calls |-> NewWorker]
    /\ upstream \in {[s \in {"raindrop"} |-> f] : f \in RaindropFeeds}
    /\ returncode = 0
    /\ serial = TRUE
    /\ faults = 0
    /\ clock = 1
    /\ gdpr = NoImport
    /\ direct = NoRequest
    /\ answer = NoAnswer

NextRaindrop ==
    \/ SyncSteps
    \/ \E c \in Calls : FetchCollections(c)
    \/ \E c \in Calls, o \in HttpOutcomes : RaindropRequest(c, o)

SpecRaindrop == InitRaindrop /\ [][NextRaindrop]_vars

\* The steps of the sync() call c from its first line to its return: the
\* event loop runs every task that is ready, a database call returns or
\* raises, a request ends with a response or with its timeout, and a sleep
\* ends.
RunStep(c) ==
    \/ SyncCheckRunning(c)
    \/ \E ok \in BOOLEAN : SyncValidate(c, ok)
    \/ \E o \in Outcomes : StartSyncLog(c, o)
    \/ \E o \in {"ok", "raise"} : Preload(c, o)
    \/ FetchCollections(c)
    \/ \E o \in HttpOutcomes : RaindropRequest(c, o)
    \/ \E o \in Outcomes : CreateOrUpdateItem(c, o)
    \/ \E o \in Outcomes : CompleteSyncLog(c, o)
    \/ \E o \in Outcomes : FailSyncLog(c, o)

\* The feeds of the fair specification: those of RaindropFeeds and one of
\* three pages with an invalid, an unparseable and a repeated record.
RaindropFairFeeds ==
    RaindropFeeds
    \cup {<<Record("a", "ok"), Record("b", "ok"), Record("x", "invalid"),
            Record("u", "unparseable"), Record("a", "ok")>>}

InitRaindropFair ==
    /\ sync_log = <<>>
    /\ items = <<>>
    /\ task = [c \in Calls |-> NewWorker]
    /\ upstream \in {[s \in {"raindrop"} |-> f] : f \in RaindropFairFeeds}
    /\ returncode = 0
    /\ serial = TRUE
    /\ faults = 0
    /\ clock = 1
    /\ gdpr = NoImport
    /\ direct = NoRequest
    /\ answer = NoAnswer

\* One Raindrop run from its call to the end of sync(); the worker is
\* kept once sync() has ended.
NextRaindropFair ==
    \/ \E c \in Calls, ok \in BOOLEAN : Trigger(c, "raindrop", ok)
    \/ \E c \in Calls : CallSync(c, "raindrop")
    \/ \E c \in Calls : RunStep(c)

SpecRaindropFair ==
    /\ InitRaindropFair
    /\ [][NextRaindropFair]_vars
    /\ \A c \in Calls : WF_vars(RunStep(c))

\* ----------------------------------------- the adapters specification
\* One run of any of the four workers (YouTube, Reddit, Raindrop, Reddit
\* GDPR import), from its call to the end of sync(), over every feed of at
\* most MaxFeed records and both exit codes of yt-dlp.
\* ------------------------------------------- the GDPR import on its own
RECURSIVE CsvUpTo(_)
\* The CSV files of at most n kept rows over the ids a and b, posts and
\* comments.
CsvUpTo(n) ==
    IF n = 0 THEN {<<>>}
    ELSE CsvUpTo(n - 1)
         \cup {Append(f, CsvRow(i, k)) :
                 f \in {g \in CsvUpTo(n - 1) : Len(g) = n - 1},
                 i \in {"a", "b"}, k \in BOOLEAN}

ImportFiles == CsvUpTo(MaxFeed)

\* The Reddit items the store holds before the first import: none, the
\* post b, or the comment a.
ImportStores ==
    StoredBefore
    \cup {<<[source |-> "reddit", source_id |-> "c_a", by |-> 0]>>}

\* Imports of one CSV file, one after the other, with store faults and no
\* other writer.
InitImport ==
    /\ sync_log = <<>>
    /\ items \in ImportStores
    /\ task = [c \in Calls |-> NewWorker]
    /\ upstream \in {[s \in {GdprWorker} |-> csv] : csv \in ImportFiles}
    /\ returncode = 0
    /\ serial = TRUE
    /\ faults = 0
    /\ clock = 1
    /\ gdpr = NoImport
    /\ direct = NoRequest
    /\ answer = NoAnswer

NextImport ==
    \/ GdprTrigger(upstream[GdprWorker])
    \/ \E o \in {"ok", "raise"} : GdprListExisting(o)
    \/ \E o \in Outcomes : GdprCreate(o)
    \/ GdprReturn

SpecImport == InitImport /\ [][NextImport]_vars

\* Mutant of Crash: the restart marks the rows left 'running' as failed.
CrashAndReap ==
    /\ \E c \in Calls : task[c].pc # "idle"
    /\ task' = [c \in Calls |-> NewWorker]
    /\ sync_log' = [i \in DOMAIN sync_log |->
                      IF sync_log[i].status = "running"
                      THEN [sync_log[i] EXCEPT !.status = "failed",
                                               !.completed_at = Some("now")]
                      ELSE sync_log[i]]
    /\ gdpr' = NoImport
    /\ direct' = NoRequest
    /\ answer' = NoAnswer
    /\ UNCHANGED <<items, upstream, returncode, serial, faults, clock>>

\* The process terminates and is started again: every handler and
\* background task in flight is gone with its worker object; the store
\* keeps what was committed.  The startup (lifespan: init_database) writes
\* no sync_log row.
Crash ==
    /\ \E c \in Calls : task[c].pc # "idle"
    /\ task' = [c \in Calls |-> NewWorker]
    /\ gdpr' = NoImport
    /\ direct' = NoRequest
    /\ answer' = NoAnswer
    /\ UNCHANGED <<sync_log, items, upstream, returncode, serial, faults,
                   clock>>

\* Concurrent calls for one source, with process termination.
InitCrash ==
    /\ sync_log = <<>>
    /\ items = <<>>
    /\ task = [c \in Calls |-> NewWorker]
    /\ upstream = [s \in {"reddit"} |-> Feed]
    /\ returncode = 0
    /\ serial = FALSE
    /\ faults = 0
    /\ clock = 1
    /\ gdpr = NoImport
    /\ direct = NoRequest
    /\ answer = NoAnswer

NextCrash ==
    \/ Next
    \/ Crash

SpecCrash == InitCrash /\ [][NextCrash]_vars

\* Outputs of yt-dlp that hold empty lines.
BlankFeeds ==
    {<<Record("", "blank")>>,
     <<Record("", "blank"), Record("a", "ok")>>,
     <<Record("u", "unparseable"), Record("", "blank")>>}

\* The worker names of the adapters specification.
Workers == Sources \cup {GdprWorker}

\* What the platforms serve: feed f for the three sources, and the rows of
\* the CSV file for the GDPR import worker.
Serving(f, g, csv) ==
    [s \in Workers |-> IF s = GdprWorker THEN csv
                       ELSE IF s = "youtube" THEN g ELSE f]

\* The feeds served to a run that starts on a store that holds items.
SeededFeeds == {<<Record("a", "ok"), Record("b", "ok")>>}

InitAdapters ==
    /\ sync_log = <<>>
    /\ \/ /\ items = <<>>
          /\ upstream \in
                {Serving(f, f, csv) : f \in Feeds, csv \in CsvFiles}
                \cup {Serving(<<>>, g, csv) :
                         g \in BlankFeeds, csv \in CsvFiles}
       \/ /\ items \in StoredBefore \ {<<>>}
          /\ upstream \in
                {Serving(f, f, csv) : f \in SeededFeeds, csv \in CsvFiles}
    /\ task = [c \in Calls |-> NewWorker]
    /\ returncode \in ReturnCodes
    /\ serial = TRUE
    /\ faults = 0
    /\ clock = 1
    /\ gdpr = NoImport
    /\ direct = NoRequest
    /\ answer = NoAnswer

NextAdapters ==
    \/ \E c \in Calls, s \in Sources, ok \in BOOLEAN : Trigger(c, s, ok)
    \/ \E c \in Calls, s \in Workers : CallSync(c, s)
    \/ \E c \in Calls : RunStep(c)
    \/ \E c \in Calls, o \in {"ok", "fatal"} : FetchItems(c, o)
    \/ \E c \in Calls, o \in {"ok", "fatal"} : GdprFetchItems(c, o)

SpecAdapters == InitAdapters /\ [][NextAdapters]_vars
\* ============================================================== claims
RunningRows(s) ==
    {i \in DOMAIN sync_log :
        sync_log[i].source = s /\ sync_log[i].status = "running"}

ItemsBy(log_id) == {i \in DOMAIN items : items[i].by = log_id}

\* C1: for every source, in every reachable state, at most one sync_log
\* row of that source has status 'running', under any interleaving of
\* concurrent trigger / sync() calls for that source.
C1_AtMostOneRunning ==
    \A s \in Sources : Cardinality(RunningRows(s)) <= 1

\* The step in which call c reads is_running() of a source that has a
\* running row: the handler of a trigger, a direct sync() call, or the
\* first line of the background task.
MeetsRunning(c) ==
    /\ task[c].pc \in {"idle", "check"}
    /\ task'[c] # task[c]
    /\ RunningRows(task'[c].source) # {}

Refused(w) ==
    /\ w.pc = "done"
    /\ w.answered = "conflict" \/ w.result = "already_running"
    /\ w.log_id = 0
    /\ ~w.did_fetch
    /\ w.is_valid = "unset"

\* C2: whenever trigger / sync() for a source is called while a run of
\* that source has status 'running', the call reports not started with an
\* 'already running' reason, creates no sync_log row, performs no fetch
\* and creates no item.
C2_RefusedWhileRunning ==
    [][\A c \in Calls :
          MeetsRunning(c) =>
              /\ Refused(task'[c])
              /\ sync_log' = sync_log
              /\ items' = items]_vars

\* A call was refused as already running while the first run still runs.
C2_Witness ==
    \E c \in Calls :
        /\ Refused(task[c])
        /\ RunningRows(task[c].source) # {}

\* The step in which call c gets an invalid answer from
\* validate_credentials().
ValidatesInvalid(c) ==
    \/ task[c].is_valid = "unset" /\ task'[c].is_valid = "no"
    \/ task[c].answered = "none" /\ task'[c].answered = "unauthorized"

\* C3: when no run of the source is running and credential validation
\* returns invalid, trigger / sync() fails with a credential error and
\* leaves the sync_log and the item store unchanged: no run row is
\* created and no fetch is made.
C3_InvalidCredentialsRefused ==
    [][\A c \in Calls :
          ValidatesInvalid(c) =>
              /\ RunningRows(task'[c].source) = {} \/ task[c].pc = "creds"
              /\ task'[c].pc = "done"
              /\ \/ task'[c].answered = "unauthorized"
                 \/ task'[c].result = "cred_failed"
              /\ task'[c].log_id = 0
              /\ ~task'[c].did_fetch
              /\ sync_log' = sync_log
              /\ items' = items]_vars

\* A sync() call ended with the credential error and no row exists.
C3_Witness ==
    \E c \in Calls :
        /\ task[c].pc = "done"
        /\ task[c].is_valid = "no"
        /\ task[c].result = "cred_failed"
        /\ sync_log = <<>>

\* C4: every trigger that was answered 'sync started' creates its SyncRun
\* row: no accepted trigger ends without having gone on to create a row
\* (its background task is never turned away as already running or for
\* invalid credentials).
C4_StartedTriggerCreatesRow ==
    \A c \in Calls :
        (task[c].pc = "done" /\ task[c].answered = "started")
            => task[c].result \notin {"already_running", "cred_failed"}
\* The optional string errs holds no store error of a creation.
NoStoreError(errs) ==
    errs = None \/ \A k \in DOMAIN errs[1] :
                      ~(Len(errs[1][k]) = 3 /\ errs[1][k][3] = "store")

Finished(i) == sync_log[i].status \in {"completed", "failed"}

\* Run j of a source started after run i of that source had finished (the
\* serial caller makes one call at a time).
Successive(i, j) ==
    /\ i < j
    /\ sync_log[i].source = sync_log[j].source
    /\ Finished(i)

DistinctNew(w) == {w.fetched[k].id : k \in DOMAIN w.fetched} \ w.preloaded

NoCreateError(errors) ==
    \A k \in DOMAIN errors : errors[k][1] # "Failed to create item"

\* C6: when all store creations of a run succeed, the run ends its loop
\* with items_ingested equal to the number of distinct external ids of the
\* candidate sequence that are not in the preloaded DuplicateIndex and
\* skipped equal to the sequence length minus items_ingested, and that
\* items_ingested is what the completed row holds.
C6_Counts ==
    \A c \in Calls :
        LET w == task[c] IN
        /\ (w.pc = "complete" /\ NoCreateError(w.errors)) =>
              /\ w.items_synced = Cardinality(DistinctNew(w))
              /\ w.items_skipped = Len(w.fetched) - w.items_synced
        /\ (w.pc = "done" /\ w.result = "success" /\ NoCreateError(w.errors)) =>
              /\ sync_log[w.log_id].status = "completed"
              /\ sync_log[w.log_id].items_synced = Cardinality(DistinctNew(w))

\* Candidates [a, b, a] with "b" preloaded: 1 ingested, 2 skipped.
C6_Witness ==
    \E c \in Calls :
        /\ task[c].pc = "complete"
        /\ [k \in DOMAIN task[c].fetched |-> task[c].fetched[k].id]
               = <<"a", "b", "a">>
        /\ task[c].preloaded = {"b"}
        /\ task[c].items_synced = 1
        /\ task[c].items_skipped = 2

\* C7: when a run is aborted by a fatal error after k items were created
\* by it, the persisted row ends with status 'failed', items_ingested == k
\* and a non-empty error_summary holding the fatal error.
C7_FailedRowKeepsCount ==
    \A c \in Calls :
        (task[c].pc = "done" /\ task[c].result = "failed") =>
            /\ sync_log[task[c].log_id].status = "failed"
            /\ sync_log[task[c].log_id].items_synced = task[c].items_synced
            /\ sync_log[task[c].log_id].errors = Some(task[c].error_msg)
            /\ task[c].error_msg # <<>>

\* C8: no rollback: an item that is in the store stays in it unchanged,
\* and a step that finalizes a run (as completed or as failed) changes no
\* item.
C8_NoRollback ==
    [][/\ \A i \in DOMAIN items :
              i \in DOMAIN items' /\ items'[i] = items[i]
       /\ (\E i \in DOMAIN sync_log :
              sync_log[i].status # sync_log'[i].status) => items' = items]_vars

\* A run ended 'failed' and the items it created are in the store.
C8_Witness ==
    \E i \in DOMAIN sync_log :
        sync_log[i].status = "failed" /\ ItemsBy(i) # {}

\* The step of call c that processes a record whose creation fails: the
\* record is not in the DuplicateIndex and is invalid, or hits the unique
\* constraint, or the store raises.
CreationFails(c) ==
    LET w == task[c]
        rec == w.fetched[w.idx]
    IN  /\ w.pc = "loop"
        /\ task'[c] # w
        /\ rec.id \notin w.existing_ids
        /\ \/ rec.kind = "invalid"
           \/ UniqueViolation(items, w.source, rec.id)
           \/ faults' > faults

\* Every token of the list errs occurs in the optional string str.
AllIn(errs, str) ==
    \A k \in DOMAIN errs :
        str # None /\ \E m \in DOMAIN str[1] : str[1][m] = errs[k]

\* C9: if the creation of one record fails, the failure is appended to the
\* run's soft-error list and the loop goes on with the next record, the
\* row staying 'running'; a run that completes writes every soft error to
\* error_summary; and no row is ever failed with a creation error.
C9_CreationFailureIsSoft ==
    /\ [][\A c \in Calls :
            /\ CreationFails(c) =>
                 LET w == task[c]
                     v == task'[c]
                 IN  /\ Len(v.errors) = Len(w.errors) + 1
                     /\ SubSeq(v.errors, 1, Len(w.errors)) = w.errors
                     /\ v.errors[Len(v.errors)][1] = "Failed to create item"
                     /\ v.errors[Len(v.errors)][2] = w.fetched[w.idx].id
                     /\ v.fetched = w.fetched
                     /\ v.idx = w.idx + 1
                     /\ v.pc = IF w.idx = Len(w.fetched)
                               THEN "complete" ELSE "loop"
                     /\ sync_log' = sync_log
            /\ (task[c].pc = "complete" /\ task'[c].result = "success") =>
                 /\ sync_log'[task[c].log_id].status = "completed"
                 /\ AllIn(task[c].errors, sync_log'[task[c].log_id].errors)
         ]_vars
    /\ [](\A i \in DOMAIN sync_log :
            sync_log[i].status = "failed" =>
                /\ sync_log[i].errors # None
                /\ \A k \in DOMAIN sync_log[i].errors[1] :
                      sync_log[i].errors[1][k][1] # "Failed to create item")

\* The first record failed validation, a later one was created, and the
\* run completed with the error in error_summary.
C9_Witness ==
    \E c \in Calls :
        /\ task[c].pc = "done"
        /\ task[c].result = "success"
        /\ Len(task[c].fetched) >= 2
        /\ task[c].fetched[1].kind = "invalid"
        /\ task[c].items_synced >= 1
        /\ sync_log[task[c].log_id].status = "completed"
        /\ sync_log[task[c].log_id].errors # None

\* C10: a row that is completed or failed never changes again (status,
\* completed_at, items_ingested and errors), so the only transitions are
\* running -> completed and running -> failed, taken at most once.
C10_TerminalRowsFrozen ==
    [][\A i \in DOMAIN sync_log :
          Finished(i) => sync_log'[i] = sync_log[i]]_vars

\* Call c is between the creation of its sync_log row and the end of
\* sync(), working on row i.
WorksOn(c, i) ==
    /\ task[c].log_id = i
    /\ task[c].pc \in {"preload", "collections", "fetch", "loop",
                      "complete", "fail"}

\* C11: absent process termination, every row created as 'running' reaches
\* 'completed' or 'failed': an exception raised after the row is created
\* (preload, fetch, ingest loop, finalization) marks the row failed.  As a
\* safety property: a row is 'running' only while the sync() call that
\* created it is still at work on it; once that call has returned or
\* raised, its row is not left 'running'.
C11_NoRowLeftRunning ==
    \A i \in DOMAIN sync_log :
        sync_log[i].status = "running" => \E c \in Calls : WorksOn(c, i)

\* The pair (source, source_id) is in the store.
Stored(source, source_id) ==
    \E i \in DOMAIN items :
        items[i].source = source /\ items[i].source_id = source_id

UniquePairs ==
    \A i, j \in DOMAIN items :
        (items[i].source = items[j].source
            /\ items[i].source_id = items[j].source_id) => i = j

\* The step in which a sync run hands a record to the store whose pair is
\* already stored (the DuplicateIndex did not hold it).
RunCreatesExisting(c) ==
    LET w == task[c]
        rec == w.fetched[w.idx]
    IN  /\ w.pc = "loop"
        /\ task'[c] # w
        /\ rec.id \notin w.existing_ids
        /\ rec.kind = "ok"
        /\ Stored(w.source, rec.id)

IsLines(errs, str) ==
    /\ Len(str) = 2 * Len(errs) - 1
    /\ \A k \in DOMAIN errs : str[2 * k - 1] = errs[k]
    /\ \A k \in 1..(Len(errs) - 1) : str[2 * k] = NL

RECURSIVE IsSubseq(_, _)
\* a is b with some elements left out.
IsSubseq(a, b) ==
    IF Len(a) = 0 THEN TRUE
    ELSE IF Len(b) = 0 THEN FALSE
    ELSE IF Head(a) = Head(b) THEN IsSubseq(Tail(a), Tail(b))
    ELSE IsSubseq(a, Tail(b))

\* The soft errors of a run in the order they occurred: the parse errors
\* of the feed in feed order, then creation errors of processed records in
\* processing order.
InOrder(w) ==
    LET parse == ParseErrors(upstream[w.source])
        rest == SubSeq(w.errors, Len(parse) + 1, Len(w.errors))
        done == [k \in 1..(w.idx - 1) |-> w.fetched[k].id]
    IN  /\ Len(w.errors) >= Len(parse)
        /\ SubSeq(w.errors, 1, Len(parse)) = parse
        /\ \A k \in DOMAIN rest : rest[k][1] = "Failed to create item"
        /\ IsSubseq([k \in DOMAIN rest |-> rest[k][2]], done)

\* The creations of a run that returned an item: the records processed
\* that were neither skipped nor recorded as a creation error.
Created(w) ==
    (w.idx - 1) - w.items_skipped
        - Cardinality({k \in DOMAIN w.errors :
                          w.errors[k][1] = "Failed to create item"})

\* C13: when a run ends 'completed', the persisted items_synced is the
\* run's count of created items and errors is the newline-joined list of
\* every soft error of the run (parse errors of the fetch, then creation
\* errors of the loop, in the order they occurred); errors is null exactly
\* when no soft error occurred.
C13_CompletedRow ==
    /\ [](\A c \in Calls :
            task[c].pc \in {"loop", "complete"} =>
                InOrder(task[c]) /\ task[c].items_synced = Created(task[c]))
    /\ [][\A c \in Calls :
            (task[c].pc = "complete"
                /\ sync_log'[task[c].log_id].status = "completed") =>
                LET w == task[c]
                    row == sync_log'[w.log_id]
                IN  /\ row.items_synced = w.items_synced
                    /\ (row.errors = None) <=> (w.errors = <<>>)
                    /\ w.errors # <<>> => IsLines(w.errors, row.errors[1])
         ]_vars

\* Feed [x, u, a]: the row is completed with one item and the two lines
\* "parse error of u", "creation error of x".
C13_Witness ==
    \E i \in DOMAIN sync_log :
        /\ sync_log[i].status = "completed"
        /\ sync_log[i].items_synced = 1
        /\ sync_log[i].errors =
              Some(<<ParseError("u"), NL, CreateError("x", "validation")>>)

\* C14: the preconditions are checked in the order already-running, then
\* credentials: a trigger / sync() call that reads is_running() while a
\* run of the source is running ends with the already-running outcome
\* whatever the credentials are, and validate_credentials() is not invoked
\* by it.
C14_RunningCheckedFirst ==
    [][\A c \in Calls :
          MeetsRunning(c) =>
              /\ task'[c].pc = "done"
              /\ \/ task'[c].answered = "conflict"
                 \/ task'[c].result = "already_running"
              /\ task'[c].answered # "unauthorized"
              /\ task'[c].result # "cred_failed"
              /\ task'[c].validations = task[c].validations]_vars

\* A trigger was answered 409 while a run of its source is running, and
\* no credential validation was made for it.
C14_Witness ==
    \E c \in Calls :
        /\ task[c].pc = "done"
        /\ task[c].answered = "conflict"
        /\ task[c].validations = 0
        /\ RunningRows(task[c].source) # {}

RowsOf(s) == {i \in DOMAIN sync_log : sync_log[i].source = s}

\* Row i is the most recently started run of its source.
LatestStarted(i) ==
    \A j \in RowsOf(sync_log[i].source) :
        sync_log[j].started_at <= sync_log[i].started_at

IdleSentinel(a) ==
    /\ a.status = "idle"
    /\ a.last_sync = None
    /\ a.items_synced = 0
    /\ a.error = None

\* C15: status(source) returns the idle sentinel (status 'idle', no last
\* sync, 0 items, no error) if and only if no sync_log row exists for the
\* source; otherwise it returns the status, completed_at, items_synced and
\* errors of the most recently started run of that source.
C15_StatusIsLatestRun ==
    [][(answer' # answer /\ answer'.kind = "status") =>
          LET a == answer'
          IN  /\ a.source = a.asked
              /\ IdleSentinel(a) <=> RowsOf(a.asked) = {}
              /\ RowsOf(a.asked) # {} =>
                    \E i \in RowsOf(a.asked) :
                        /\ LatestStarted(i)
                        /\ a.status = sync_log[i].status
                        /\ a.last_sync = sync_log[i].completed_at
                        /\ a.items_synced = sync_log[i].items_synced
                        /\ a.error = sync_log[i].errors]_vars

\* Two runs of youtube exist, the first completed with one item, and the
\* status request answered with the second run, which is running.
C15_Witness ==
    /\ answer.kind = "status"
    /\ answer.asked = "youtube"
    /\ answer.status = "running"
    /\ Len(sync_log) = 2
    /\ sync_log[1].source = "youtube" /\ sync_log[1].status = "completed"
    /\ sync_log[1].items_synced = 1
    /\ sync_log[2].source = "youtube" /\ sync_log[2].status = "running"

\* Row i is at position n (from 0) of the rows M ordered by started_at
\* descending.
Position(i, M, n) ==
    Cardinality({j \in M : sync_log[j].started_at > sync_log[i].started_at}) = n

\* The answer a is the page (limit, offset) of the rows M, newest first,
\* with total the number of rows M.
IsPage(a, M) ==
    /\ a.total = Cardinality(M)
    /\ Len(a.entries) <= a.limit
    /\ Len(a.entries) = IF Cardinality(M) <= a.offset THEN 0
                        ELSE IF Cardinality(M) - a.offset < a.limit
                             THEN Cardinality(M) - a.offset
                        ELSE a.limit
    /\ \A k \in DOMAIN a.entries :
          \E i \in M : /\ Position(i, M, a.offset + k - 1)
                       /\ a.entries[k] = sync_log[i]

\* C16, as claimed: history(source, limit, offset) returns as total the
\* number of all rows matching the optional source filter, independent of
\* limit and offset, and as entries the rows at positions offset ..
\* offset+limit-1 of those rows ordered by started_at descending (at most
\* limit entries, only rows of the filtered source).
C16_HistoryPage ==
    [][(answer' # answer /\ answer'.kind = "history") =>
          IsPage(answer',
                 IF answer'.asked = None THEN DOMAIN sync_log
                 ELSE RowsOf(answer'.asked[1]))]_vars

\* C16, amended: the source filter applies when a non-empty source is
\* given; with no source or with the empty string as source, total and
\* entries are taken over all rows.
C16_HistoryPageOfNonEmptyFilter ==
    [][(answer' # answer /\ answer'.kind = "history") =>
          IsPage(answer',
                 IF answer'.asked = None \/ answer'.asked = Some("")
                 THEN DOMAIN sync_log
                 ELSE RowsOf(answer'.asked[1]))]_vars

\* Two rows, a request with source "" for the page limit 1, offset 1: the
\* total is 2 and the entry is the older row.
C16_Witness ==
    /\ answer.kind = "history"
    /\ answer.asked = Some("")
    /\ answer.limit = 1 /\ answer.offset = 1
    /\ Len(sync_log) = 2
    /\ answer.total = 2
    /\ answer.entries = <<sync_log[1]>>

\* A retryable outcome of a page request: HTTP 502/503/504 or a timeout.
Retryable(o) == o \in {"502", "503", "504", "timeout"}

\* The step in which call c makes one attempt of a page request; its
\* outcome is the last of outcomes'.
AttemptStep(c) ==
    /\ task[c].pc = "fetch"
    /\ task[c].source = "raindrop"
    /\ task'[c] # task[c]

Last(seq) == seq[Len(seq)]

\* The first two attempts of the page request in progress were retryable.
TwoRetryable(w) ==
    /\ Len(w.outcomes) = 2
    /\ Retryable(w.outcomes[1])
    /\ Retryable(w.outcomes[2])

\* C17: with max_attempts = 3, when the first two attempts of a page
\* request have a retryable outcome and the third succeeds, exactly 3 calls
\* are made for that page and the page request succeeds: the fetch goes on
\* with that page's records.
C17_ThirdAttemptSucceeds ==
    /\ [](\A c \in Calls :
            TwoRetryable(task[c]) =>
                task[c].pc = "fetch" /\ task[c].attempt = 2)
    /\ [][\A c \in Calls :
            (AttemptStep(c) /\ TwoRetryable(task[c])
                /\ Last(task'[c].outcomes) = "200") =>
                LET w == task[c]
                    v == task'[c]
                    records == PageOf(upstream["raindrop"], w.page)
                IN  /\ Len(v.outcomes) = 3
                    /\ v.pc # "fail"
                    /\ v.error_msg = <<>>
                    /\ v.fetched = w.fetched \o
                          SelectSeq(records, LAMBDA r : r.kind # "unparseable")
                    /\ \/ v.pc = "fetch" /\ v.page = w.page + 1
                       \/ v.pc \in {"loop", "complete"}
                    /\ sync_log'[w.log_id].status = "running"
         ]_vars

\* The first page was asked for three times (502, timeout, 200) and its
\* two records are the candidates so far; the fetch asks for the next page.
C17_Witness ==
    \E c \in Calls :
        /\ task[c].outcomes = <<"502", "timeout", "200">>
        /\ task[c].pc = "fetch"
        /\ task[c].page = 1
        /\ Len(task[c].fetched) = 2

\* C18: at most max_attempts calls are made for one page request; when
\* all max_attempts attempts have a retryable outcome, exactly max_attempts
\* calls are made, the fetch raises a fatal error, no item of the run is
\* created and the run ends 'failed' (fail_sync marks the row); a retryable
\* outcome before the attempts are exhausted never fails the run.
C18_RetriesExhausted ==
    /\ [](\A c \in Calls :
            /\ Len(task[c].outcomes) <= MAX_RETRIES
            /\ (task[c].source = "raindrop" /\ task[c].result = "failed"
                    /\ Len(task[c].fetched) = 0) =>
                  /\ sync_log[task[c].log_id].status = "failed"
                  /\ ItemsBy(task[c].log_id) = {})
    /\ [][\A c \in Calls :
            /\ (AttemptStep(c) /\ Retryable(Last(task'[c].outcomes))) =>
                  IF Len(task'[c].outcomes) = MAX_RETRIES
                  THEN /\ \A k \in 1..MAX_RETRIES :
                             Retryable(task'[c].outcomes[k])
                       /\ task'[c].pc = "fail"
                       /\ task'[c].error_msg # <<>>
                       /\ task'[c].items_synced = 0
                       /\ ItemsBy(task[c].log_id) = {}
                  ELSE /\ task'[c].pc = "fetch"
                       /\ task'[c].attempt = task[c].attempt + 1
                       /\ task'[c].page = task[c].page
                       /\ sync_log'[task[c].log_id].status = "running"
            /\ (task[c].source = "raindrop" /\ task[c].pc = "fail"
                    /\ task'[c] # task[c] /\ faults' = faults) =>
                  /\ sync_log'[task[c].log_id].status = "failed"
                  /\ sync_log'[task[c].log_id].errors = Some(task[c].error_msg)
         ]_vars

\* Three attempts of the first page were retryable (a mix of timeouts and
\* 5xx), the run ended 'failed' and created no item.
C18_Witness ==
    \E c \in Calls :
        /\ task[c].outcomes = <<"timeout", "503", "timeout">>
        /\ task[c].page = 0
        /\ task[c].result = "failed"
        /\ sync_log[task[c].log_id].status = "failed"
        /\ sync_log[task[c].log_id].errors = Some(<<RaindropTimeout>>)
        /\ ItemsBy(task[c].log_id) = {}

\* A fatal outcome of a page request: a response whose status is neither
\* 200 nor 502/503/504.
Fatal(o) == o \notin {"200", "502", "503", "504", "timeout"}

\* C19: when an attempt of a page request has a fatal outcome, no further
\* attempt is made for that page: the fetch aborts with an error after that
\* call and the run ends 'failed'.
C19_FatalNotRetried ==
    /\ [](\A c \in Calls :
            \A k \in DOMAIN task[c].outcomes :
                Fatal(task[c].outcomes[k]) =>
                    /\ k = Len(task[c].outcomes)
                    /\ task[c].pc \in {"fail", "done"}
                    /\ task[c].result = "failed" =>
                          sync_log[task[c].log_id].status = "failed")
    /\ [][\A c \in Calls :
            /\ (AttemptStep(c) /\ Fatal(Last(task'[c].outcomes))) =>
                  /\ task'[c].pc = "fail"
                  /\ task'[c].error_msg =
                        <<RaindropApiError(Last(task'[c].outcomes))>>
                  /\ task'[c].fetched = task[c].fetched
            /\ (task[c].source = "raindrop" /\ task[c].pc = "fail"
                    /\ task'[c] # task[c] /\ faults' = faults) =>
                  sync_log'[task[c].log_id].status = "failed"
         ]_vars

\* The second attempt of the second page was answered 500: the run is
\* 'failed' with that error.
C19_Witness ==
    \E c \in Calls :
        /\ task[c].outcomes = <<"502", "500">>
        /\ task[c].page = 1
        /\ task[c].result = "failed"
        /\ sync_log[task[c].log_id].status = "failed"
        /\ sync_log[task[c].log_id].errors = Some(<<RaindropApiError("500")>>)

\* C20: for every retryable outcome (5xx response or timeout) of attempt
\* number n (1-based) of a page request, the delay waited before the next
\* attempt is n * 5 seconds, and no backoff delay is waited after the last
\* attempt.
C20_LinearBackoff ==
    [][\A c \in Calls :
          (AttemptStep(c) /\ Retryable(Last(task'[c].outcomes))) =>
              LET n == Len(task'[c].outcomes)
                  before == IF n = 1 THEN <<>> ELSE task[c].waits
              IN  task'[c].waits =
                      IF n < MAX_RETRIES THEN Append(before, n * 5)
                      ELSE before]_vars

\* The step in which call c makes outbound calls to the Raindrop API
\* during its run: the collection requests, or one attempt of a page
\* request.
OutboundStep(c) ==
    /\ task[c].source = "raindrop"
    /\ task[c].pc \in {"collections", "fetch"}
    /\ task'[c] # task[c]

\* C21: during a Raindrop run every outbound call to the platform (the
\* two collection requests, every page request and every retry of it) is
\* preceded by a wait of at least RATE_LIMIT_DELAY since the previous
\* outbound call.
C21_RateLimited ==
    [][\A c \in Calls :
          OutboundStep(c) => task'[c].gap[1] >= RATE_LIMIT_DELAY]_vars

\* The records of a page that parse, in page order.
Parsed(records) ==
    SelectSeq(records, LAMBDA r : r.kind \notin {"unparseable", "blank"})

\* The first n pages of the feed, as one sequence.
FirstPages(feed, n) ==
    SubSeq(feed, 1, Min(n * MAX_PER_PAGE, Len(feed)))

\* Page n is a stopping page: it holds fewer than the page size records.
Stops(feed, n) == Len(feed) - n * MAX_PER_PAGE < MAX_PER_PAGE

\* C22: the paginated fetch requests pages 0, 1, 2, ... in order and stops
\* after the first page that holds fewer than the page size records, an
\* empty page included; when every page request succeeds it returns the
\* parsed records of exactly the requested pages, in page order and in-page
\* order, and requests no page after the stopping page.
C22_Pagination ==
    /\ [](\A c \in Calls :
            LET w == task[c]
                feed == upstream["raindrop"]
            IN  (w.source = "raindrop" /\ w.pc \in {"fetch", "loop", "complete"})
                => /\ \A n \in 0..(w.page - 1) : ~Stops(feed, n)
                   /\ w.pc = "fetch" =>
                         w.fetched = Parsed(FirstPages(feed, w.page))
                   /\ w.pc \in {"loop", "complete"} =>
                         /\ Stops(feed, w.page)
                         /\ w.fetched = Parsed(FirstPages(feed, w.page + 1)))
    /\ [][\A c \in Calls :
            AttemptStep(c) =>
                LET w == task[c]
                    v == task'[c]
                    stop == Stops(upstream["raindrop"], w.page)
                IN  /\ v.page \in {w.page, w.page + 1}
                    /\ v.page = w.page + 1 <=>
                          (Last(v.outcomes) = "200" /\ ~stop)
                    /\ (Last(v.outcomes) = "200" /\ stop) =>
                          v.pc \in {"loop", "complete"}
                    /\ v.pc \in {"loop", "complete"} =>
                          Last(v.outcomes) = "200"]_vars

\* The feed of two records fills page 0; page 1 came empty and ended the
\* fetch with the two records as candidates.
C22_Witness ==
    \E c \in Calls :
        /\ task[c].source = "raindrop"
        /\ upstream["raindrop"] = <<Record("a", "ok"), Record("b", "ok")>>
        /\ task[c].pc = "loop"
        /\ task[c].page = 1
        /\ task[c].fetched = <<Record("a", "ok"), Record("b", "ok")>>

\* C23: for every finite upstream feed and every sequence of per-attempt
\* outcomes, the paginated fetch terminates (with a record list or with a
\* fatal error), and so does the run: under fairness of the event loop a
\* run that has started its fetch reaches its finalization step, and
\* sync() returns.
C23_RunTerminates ==
    \A c \in Calls :
        /\ (task[c].pc \in {"collections", "fetch"})
               ~> (task[c].pc \in {"loop", "complete", "fail"})
        /\ (task[c].pc \in {"collections", "fetch", "loop"})
               ~> (task[c].pc \in {"complete", "fail"})

\* A run whose second page was asked for three times (timeout, 502, 200)
\* has ended its fetch and its loop and stands at its finalization.
C23_Witness ==
    \E c \in Calls :
        /\ task[c].pc = "complete"
        /\ task[c].page = 1
        /\ task[c].outcomes = <<"timeout", "502", "200">>
        /\ Len(task[c].fetched) = 2

\* The soft errors of the records of a feed that do not parse, one per
\* record, in feed order.
SoftErrorsOf(records) ==
    LET bad == SelectSeq(records, LAMBDA r : r.kind = "unparseable")
    IN  [k \in DOMAIN bad |-> ParseError(bad[k].id)]

\* The step in which the YouTube or the Reddit worker's _fetch_items
\* returns its records.
FeedFetched(c) ==
    /\ task[c].pc = "fetch"
    /\ task[c].source \in FeedSources
    /\ task'[c].pc \in {"loop", "complete"}

\* The step in which a page request of the Raindrop worker is answered
\* 200.
PageFetched(c) ==
    /\ AttemptStep(c)
    /\ Last(task'[c].outcomes) = "200"

\* The records run w has been served so far.
Served(w) ==
    IF w.source = "raindrop"
    THEN FirstPages(upstream[w.source], w.page + 1)
    ELSE upstream[w.source]

YtdlpEnds(c) ==
    /\ task[c].pc = "fetch"
    /\ task[c].source = "youtube"
    /\ task'[c] # task[c]

\* C25: the subprocess adapter raises a fetch-level fatal error if and
\* only if the extraction tool exits with a non-zero code and produced no
\* output; when the tool exits non-zero but produced some output lines,
\* those lines are ingested as a normal feed and the run ends 'completed'.
C25_FatalIffNoOutput ==
    [][\A c \in Calls :
          LET w == task[c]
              v == task'[c]
              stdout == upstream["youtube"]
          IN  /\ YtdlpEnds(c) =>
                    /\ v.pc = "fail" <=> (returncode # 0 /\ stdout = <<>>)
                    /\ v.pc = "fail" => v.error_msg = <<YtdlpError>>
                    /\ v.pc # "fail" =>
                          /\ v.pc \in {"loop", "complete"}
                          /\ v.fetched = Parsed(stdout)
                          /\ v.errors = w.errors \o SoftErrorsOf(stdout)
                          /\ sync_log'[w.log_id].status = "running"
              /\ (w.source = "youtube" /\ w.pc = "complete"
                      /\ v # w /\ faults' = faults) =>
                    /\ v.result = "success"
                    /\ sync_log'[w.log_id].status = "completed"
                    /\ sync_log'[w.log_id].items_synced = w.items_synced
      ]_vars

\* yt-dlp ended with exit code 1 and the output [a, x]: a was created, x
\* was a soft error and the run ended 'completed'.
C25_Witness ==
    \E c \in Calls :
        /\ returncode = 1
        /\ task[c].source = "youtube"
        /\ upstream["youtube"] = <<Record("a", "ok"), Record("x", "invalid")>>
        /\ task[c].result = "success"
        /\ sync_log[task[c].log_id].status = "completed"
        /\ sync_log[task[c].log_id].items_synced = 1
        /\ ItemsBy(task[c].log_id) # {}

\* The step in which call c processes one record of its candidates.
Processes(c) ==
    /\ task[c].pc = "loop"
    /\ task'[c] # task[c]

\* The record call c is about to process.
Current(w) == w.fetched[w.idx]

\* C26: processing a record whose external_id is already in the
\* DuplicateIndex increments skipped by one and changes nothing else: no
\* store call is made, and the item store, the DuplicateIndex,
\* items_ingested and the soft-error list are unchanged.
C26_DuplicateOnlySkipped ==
    [][\A c \in Calls :
          (Processes(c) /\ Current(task[c]).id \in task[c].existing_ids) =>
              LET w == task[c]
                  v == task'[c]
              IN  /\ v.items_skipped = w.items_skipped + 1
                  /\ v.items_synced = w.items_synced
                  /\ v.existing_ids = w.existing_ids
                  /\ v.errors = w.errors
                  /\ v.fetched = w.fetched
                  /\ v.idx = w.idx + 1
                  /\ v.pc \in {"loop", "complete"}
                  /\ items' = items
                  /\ sync_log' = sync_log
                  /\ faults' = faults]_vars

\* The candidates [b, a, a] with "b" preloaded: b and the second a were
\* skipped, one item was created, no error was recorded.
C26_Witness ==
    \E c \in Calls :
        /\ task[c].pc = "complete"
        /\ [k \in DOMAIN task[c].fetched |-> task[c].fetched[k].id]
               = <<"b", "a", "a">>
        /\ task[c].preloaded = {"b"}
        /\ task[c].items_skipped = 2
        /\ task[c].items_synced = 1
        /\ task[c].errors = <<>>

\* The external ids of the items run log_id has put into the store.
IdsBy(log_id) == {items[i].source_id : i \in ItemsBy(log_id)}

\* The creation of the record call c is about to process succeeds in this
\* step: the record is valid, its pair is not stored and no store call
\* raises.
CreationSucceeds(c) ==
    /\ Processes(c)
    /\ Current(task[c]).id \notin task[c].existing_ids
    /\ Current(task[c]).kind = "ok"
    /\ ~Stored(task[c].source, Current(task[c]).id)
    /\ faults' = faults

\* C27: at every point of a run's ingest loop the DuplicateIndex equals
\* the set of external ids preloaded at run start united with the external
\* ids this run has successfully created: a successful creation adds the
\* id and increments items_ingested by one, a failed creation adds nothing
\* to the index and leaves items_ingested unchanged (so a later occurrence
\* of that id in the same feed is attempted again).
C27_DuplicateIndex ==
    /\ [](\A c \in Calls :
            LET w == task[c]
            IN  /\ w.pc \in {"collections", "fetch"} =>
                      w.existing_ids = w.preloaded
                /\ w.pc \in {"loop", "complete"} =>
                      /\ w.preloaded \subseteq w.existing_ids
                      /\ (w.existing_ids \ w.preloaded) \subseteq IdsBy(w.log_id)
                      /\ w.items_synced =
                            Cardinality(w.existing_ids \ w.preloaded))
    /\ [][\A c \in Calls :
            LET w == task[c]
                v == task'[c]
            IN  /\ w.pc \in {"collections", "fetch", "loop"} =>
                      v.preloaded = w.preloaded
                /\ CreationSucceeds(c) =>
                      /\ v.existing_ids = w.existing_ids \cup {Current(w).id}
                      /\ v.items_synced = w.items_synced + 1
                      /\ v.errors = w.errors
                /\ CreationFails(c) =>
                      /\ v.existing_ids = w.existing_ids
                      /\ v.items_synced = w.items_synced
                      /\ Current(w).id \notin v.existing_ids
         ]_vars

\* The candidates [a, a]: the creation of the first a failed in the
\* store, the second a was attempted again and created.
C27_Witness ==
    \E c \in Calls :
        /\ task[c].pc = "complete"
        /\ task[c].fetched = <<Record("a", "ok"), Record("a", "ok")>>
        /\ task[c].errors = <<CreateError("a", "store")>>
        /\ task[c].items_synced = 1
        /\ task[c].items_skipped = 0
        /\ task[c].existing_ids = task[c].preloaded \cup {"a"}

\* C28: within one run the records are processed in the order the adapter
\* returned them, and no external id is successfully created more than
\* once by the same run: when a record is checked, the DuplicateIndex
\* already holds every id created earlier in that run.
C28_OrderedAndOncePerId ==
    /\ [](\A c \in Calls :
            task[c].pc \in {"loop", "complete"} =>
                /\ task[c].idx \in 1..(Len(task[c].fetched) + 1)
                /\ task[c].pc = "complete" <=>
                      task[c].idx = Len(task[c].fetched) + 1
                /\ \A i, j \in ItemsBy(task[c].log_id) :
                      items[i].source_id = items[j].source_id => i = j)
    /\ [][\A c \in Calls :
            Processes(c) =>
                LET w == task[c]
                    v == task'[c]
                IN  /\ v.fetched = w.fetched
                    /\ v.idx = w.idx + 1
                    /\ w.existing_ids \subseteq v.existing_ids
                    /\ items' # items =>
                          items' = Append(items, [source |-> w.source,
                                                  source_id |-> Current(w).id,
                                                  by |-> w.log_id])
                    /\ v.errors # w.errors =>
                          /\ Len(v.errors) = Len(w.errors) + 1
                          /\ Last(v.errors)[2] = Current(w).id
                    /\ v.items_synced # w.items_synced =>
                          /\ v.items_synced = w.items_synced + 1
                          /\ Current(w).id \notin w.existing_ids
                          /\ Current(w).id \notin IdsBy(w.log_id)
                          /\ Current(w).id \in v.existing_ids
         ]_vars

\* The candidates [a, b, a] on an empty store: a and b were created in
\* that order, the second a was found in the DuplicateIndex and skipped.
C28_Witness ==
    \E c \in Calls :
        /\ task[c].pc = "complete"
        /\ task[c].fetched =
              <<Record("a", "ok"), Record("b", "ok"), Record("a", "ok")>>
        /\ task[c].preloaded = {}
        /\ task[c].items_synced = 2
        /\ task[c].items_skipped = 1
        /\ [k \in DOMAIN items |-> items[k].source_id] = <<"a", "b">>

\* C29: at every point of a run, the run's items_ingested counter equals
\* the number of items present in the store that were inserted by that
\* run: an insertion that reached the store is always counted, and a
\* counted creation always corresponds to an item in the store (also when
\* the re-read after the insert fails).
C29_CountMatchesStore ==
    \A c \in Calls :
        task[c].pc \in {"loop", "complete", "fail", "done"} /\ task[c].log_id # 0
            => task[c].items_synced = Cardinality(ItemsBy(task[c].log_id))

\* C30: the fetch step of every adapter (YouTube, Reddit, Raindrop and the
\* Reddit GDPR import worker) leaves persistent state unchanged: no step
\* taken by a worker between the start and the end of its fetch, whether
\* the fetch then returns records or raises, creates, updates or deletes
\* an item or creates or changes a sync_log row.
C30_FetchLeavesStore ==
    [][\A c \in Calls :
            (task[c].pc \in {"collections", "fetch"} /\ task'[c] # task[c])
                => /\ items' = items
                   /\ sync_log' = sync_log
      ]_vars

\* The GDPR import worker has returned from its fetch with the stub of
\* row a, having read that b is stored: the store still holds what it
\* held before the run, and the run's row is as start_sync_log wrote it.
C30_Witness ==
    \E c \in Calls :
        /\ task[c].source = GdprWorker
        /\ task[c].pc = "loop"
        /\ task[c].did_fetch
        /\ task[c].fetched = <<Record("a", "ok")>>
        /\ items \in StoredBefore \ {<<>>}
        /\ sync_log[task[c].log_id].status = "running"

\* The place of a step of sync() in the order of its code.
Stage(pc) ==
    CASE pc = "idle" -> 0
      [] pc = "check" -> 1
      [] pc = "creds" -> 2
      [] pc = "start" -> 3
      [] pc = "preload" -> 4
      [] pc = "collections" -> 5
      [] pc = "fetch" -> 6
      [] pc = "loop" -> 7
      [] pc = "complete" -> 8
      [] pc = "fail" -> 9
      [] pc = "done" -> 10

\* The items a step inserts.
Inserted == {items'[i] : i \in DOMAIN items' \ DOMAIN items}

\* C31: the steps of a run happen in the order row created as 'running',
\* DuplicateIndex preloaded, fetch, per-record creations, finalization: a
\* call only moves forward through them, a row is inserted only by a call
\* at _start_sync_log, and every item a
\* worker creates is created by a worker in its ingest loop, after its
\* fetch, while the worker's own row exists and has status 'running'
\* before and after the creation.
C31_CreatedWhileRunning ==
    [][/\ \A c \in Calls :
            task'[c].pc # task[c].pc =>
                \/ task[c].pc = "done" /\ task'[c].pc = "idle"
                \/ Stage(task'[c].pc) > Stage(task[c].pc)
       /\ Len(sync_log') > Len(sync_log) =>
            \E c \in Calls : task[c].pc = "start" /\ task'[c] # task[c]
       /\ \A it \in Inserted :
            it.by > 0 =>
                /\ it.by \in DOMAIN sync_log
                /\ sync_log[it.by].status = "running"
                /\ sync_log'[it.by].status = "running"
                /\ \E c \in Calls :
                      /\ task[c].log_id = it.by
                      /\ task[c].pc = "loop"
                      /\ task[c].did_fetch
                      /\ task'[c] # task[c]
      ]_vars

\* A worker in its ingest loop has created an item while another run of
\* the same source has already been finalized: the worker's own row is
\* still 'running'.
C31_Witness ==
    \E c \in Calls :
        /\ task[c].pc = "loop"
        /\ ItemsBy(task[c].log_id) # {}
        /\ sync_log[task[c].log_id].status = "running"
        /\ \E i \in DOMAIN sync_log :
              /\ sync_log[i].source = task[c].source
              /\ sync_log[i].status \in {"completed", "failed"}

\* C32: every sync_log row is created with status 'running',
\* items_synced 0, no completed_at and no errors, and in every reachable
\* state a row has a completed_at timestamp if and only if its status is
\* 'completed' or 'failed'.
C32_CompletedAtIffTerminal ==
    /\ [](\A i \in DOMAIN sync_log :
            sync_log[i].completed_at # None
                <=> sync_log[i].status \in {"completed", "failed"})
    /\ [][\A i \in DOMAIN sync_log' \ DOMAIN sync_log :
            /\ sync_log'[i].status = "running"
            /\ sync_log'[i].items_synced = 0
            /\ sync_log'[i].completed_at = None
            /\ sync_log'[i].errors = None
         ]_vars

\* One run has failed and has its completed_at, a second run of the same
\* source is running and has none.
C32_Witness ==
    \E i, j \in DOMAIN sync_log :
        /\ sync_log[i].status = "failed"
        /\ sync_log[i].completed_at # None
        /\ sync_log[j].source = sync_log[i].source
        /\ sync_log[j].status = "running"
        /\ sync_log[j].completed_at = None

\* The step in which call c is refused as already running.
GetsRefused(c) ==
    /\ ~Refused(task[c])
    /\ Refused(task'[c])

\* C33: runs of different sources are independent, under every
\* interleaving: a call is refused as already running only when a row of
\* its own source is running (a running or stuck run of another source
\* never refuses it), the DuplicateIndex of a run holds only ids stored
\* under the run's own source, and a step of a call of one source changes
\* no sync_log row of another source and no other call's worker (its
\* counters included).
C33_SourcesIndependent ==
    /\ [](\A c \in Calls :
            task[c].log_id # 0 =>
                \A id \in task[c].existing_ids : Stored(task[c].source, id))
    /\ [][\A c \in Calls :
            /\ GetsRefused(c) => RunningRows(task'[c].source) # {}
            /\ task'[c] # task[c] =>
                  /\ \A d \in Calls \ {c} : task'[d] = task[d]
                  /\ \A i \in DOMAIN sync_log :
                        sync_log[i].source # task'[c].source
                            => sync_log'[i] = sync_log[i]
         ]_vars

\* A YouTube run is running and has stored items; a Reddit trigger was
\* answered 'started' meanwhile, and its run preloaded an empty
\* DuplicateIndex and is in its ingest loop.
C33_Witness ==
    \E c, d \in Calls :
        /\ task[c].source = "youtube"
        /\ task[c].log_id # 0
        /\ sync_log[task[c].log_id].status = "running"
        /\ ItemsBy(task[c].log_id) # {}
        /\ task[d].source = "reddit"
        /\ task[d].answered = "started"
        /\ task[d].pc = "loop"
        /\ task[d].preloaded = {}
        /\ sync_log[task[d].log_id].status = "running"

\* C34: the Reddit GDPR import and a Reddit sync run never execute at the
\* same time, under every interleaving of the two triggers and their
\* background tasks: an import requested while a Reddit run is running is
\* rejected, and while an accepted import is creating items no Reddit
\* sync_log row has status 'running'.
C34_ImportExcludesSync ==
    /\ [][(gdpr.pc = "idle" /\ gdpr' # gdpr /\ RunningRows("reddit") # {})
            => gdpr'.answered = "conflict" /\ gdpr'.pc = "done"]_vars
    /\ [](gdpr.pc = "create" => RunningRows("reddit") = {})

\* Row i is 'running' and no call in flight works on it.
Stuck(i) ==
    /\ sync_log[i].status = "running"
    /\ \A c \in Calls : ~WorksOn(c, i)

\* The step in which the process terminates with calls in flight.
Terminates ==
    /\ \E c \in Calls : task[c].pc \notin {"idle", "done"}
    /\ \A c \in Calls : task'[c] = NewWorker

\* C35: if the process terminates while a run is 'running', the row stays
\* 'running' in every later state: the termination leaves every running
\* row as it is with no call at work on it, no step changes or removes
\* such a row, and every later trigger or sync() call for its source is
\* refused as already running and creates no row.
C35_StuckRowStaysRunning ==
    [][/\ Terminates =>
            /\ sync_log' = sync_log
            /\ \A i \in DOMAIN sync_log :
                  sync_log[i].status = "running" => Stuck(i)'
       /\ \A i \in DOMAIN sync_log :
            Stuck(i) =>
                /\ i \in DOMAIN sync_log'
                /\ sync_log'[i] = sync_log[i]
                /\ Stuck(i)'
                /\ \A c \in Calls :
                      (task[c].pc \in {"idle", "check"}
                          /\ task'[c] # task[c]
                          /\ task'[c].pc # "idle"
                          /\ task'[c].source = sync_log[i].source)
                        => /\ Refused(task'[c])
                           /\ Len(sync_log') = Len(sync_log)
      ]_vars

\* The process terminated while a Reddit run was at work; after the
\* restart its row is still 'running', and a trigger for Reddit was
\* answered 409.
C35_Witness ==
    \E i \in DOMAIN sync_log, c \in Calls :
        /\ sync_log[i].source = "reddit"
        /\ Stuck(i)
        /\ ItemsBy(i) # {}
        /\ Cardinality(ItemsBy(i)) < Len(Feed)
        /\ task[c].source = "reddit"
        /\ task[c].answered = "conflict"

\* C36: the status query and the trigger mutex agree in every reachable
\* state: GET /sync/status/{source} reports 'running' if and only if
\* is_sync_running(source) holds, i.e. whenever some run of the source is
\* running, that run is the most recently started run of the source.
C36_StatusAgreesWithMutex ==
    \A s \in DOMAIN upstream :
        GetSyncStatus(sync_log, s).status = "running"
            <=> IsSyncRunning(sync_log, s)

\* The two forms under which a CSV row may be stored: its id and its id
\* with the comment prefix.
PotentialIds(row) == {row.id, CommentId(row.id)}

\* The source_ids of the Reddit items in the store.
RedditIds == {items[i].source_id : i \in {j \in DOMAIN items :
                                            items[j].source = "reddit"}}

RECURSIVE TakenBefore(_, _, _)
\* The ids that are taken when row k of the CSV is looked at: the ids E of
\* the stored Reddit items and the stub ids of the earlier rows that were
\* not skipped.
TakenBefore(csv, k, E) ==
    IF k = 1 THEN E
    ELSE LET T == TakenBefore(csv, k - 1, E)
         IN  IF PotentialIds(csv[k - 1]) \cap T = {}
             THEN T \cup {StubSourceId(csv[k - 1])}
             ELSE T

\* The stubs of the rows none of whose potential ids is taken, in the
\* order of the CSV.
Untaken(csv, E) ==
    LET kept == SelectSeq([k \in DOMAIN csv |-> k],
                          LAMBDA k : PotentialIds(csv[k])
                                       \cap TakenBefore(csv, k, E) = {})
    IN  [j \in DOMAIN kept |-> StubSourceId(csv[kept[j]])]

\* The step in which an import has read the stored Reddit items and
\* chosen its stubs.
ImportLists ==
    /\ gdpr.pc = "list"
    /\ gdpr' # gdpr
    /\ faults' = faults

\* The step in which an import hands a stub to the store.
ImportCreates ==
    /\ gdpr.pc = "create"
    /\ gdpr' # gdpr

\* Every row skipped and every stub distinct and new: the import chooses
\* the stubs of exactly the rows whose id, with or without the comment
\* prefix, is neither a stored Reddit item nor taken by an earlier row,
\* and never hands the store a pair that is stored or that it handed over
\* before.
ImportSkipsTaken ==
    /\ ImportLists => gdpr'.stubs = Untaken(gdpr.csv, RedditIds)
    /\ ImportCreates =>
          /\ ~Stored("reddit", gdpr.stubs[gdpr.idx])
          /\ \A j \in 1..(gdpr.idx - 1) : gdpr.stubs[j] # gdpr.stubs[gdpr.idx]

====
